---- MODULE Spec2Model ----
(***************************************************************************)
(* Request composition pipeline of endpoint-fetcher: hook merging          *)
(* (src/src/utils.ts mergeHooks), the hook-applying transport wrapper      *)
(* (src/src/utils.ts createEnhancedFetch) and the client builder / call    *)
(* assembly (src/src/client.ts).                                           *)
(*                                                                         *)
(* Every async function of the source is a frame on a per-call stack; one  *)
(* action is one synchronous run of a function between two awaits.  User   *)
(* supplied functions (hooks, the injected fetch, Response.json, handler   *)
(* wrappers, custom handlers) are opaque: each invocation is one action    *)
(* whose outcome is chosen nondeterministically.  A hook that returns      *)
(* appends its own identity to what it was given, so the value that comes  *)
(* out of a chain spells the order in which the chain was threaded.        *)
(***************************************************************************)
EXTENDS Integers, Sequences, FiniteSets, TLC

VARIABLES
  client,     \* what createApiClient was given and what it returned
  hooksList,  \* the argument list of a direct mergeHooks(...) call
  call,       \* per call: the function the caller invoked, with its arguments
  stack,      \* per call: the frames of the async functions in progress
  ret,        \* per call: completion of the frame that finished last
  log         \* per call: invocations of user supplied functions, in order

vars == <<client, hooksList, call, stack, ret, log>>

----------------------------------------------------------------------------
(* Bounds *)

MaxSources == 3        \* longest argument list given to mergeHooks directly
MaxFaults == 2         \* invocations of one call that fail: a hook that throws,
                       \* a rejection or a non-ok response of the transport,
                       \* a body that does not decode

Calls == {"c1", "c2"}

----------------------------------------------------------------------------
(* Values *)

Kinds == {"beforeRequest", "afterResponse", "onError"}

\* A Hooks object written by the user: which of the three optional
\* callbacks it defines.  id names the object (and so its callbacks).
HookSet(id, kinds) == [id |-> id, kinds |-> kinds]

\* The JS value undefined where a Hooks object is expected.
Undefined == [id |-> "undefined", kinds |-> {}]

\* !!h?.beforeRequest and its two siblings
Defines(h, kind) == h # Undefined /\ kind \in h.kinds

\* (url, init): each is the list of pre-call hooks that rewrote it
Req(url, init) == [url |-> url, init |-> init]

\* a Response: its ok flag and the list of post-call hooks that returned it
StatusText(status) ==
  CASE status = 200 -> "OK"
    [] status = 404 -> "Not Found"
    [] status = 500 -> "Internal Server Error"

\* a Response: ok is what the Fetch API derives from the status
Response(status, via) ==
  [ok |-> status \in 200..299, status |-> status,
   statusText |-> StatusText(status), via |-> via]

Resp(ok, via) == Response(IF ok THEN 200 ELSE 404, via)

Err(name, src) == [name |-> name, src |-> src]

NoRet == [status |-> "none"]
Return(v) == [status |-> "return", value |-> v]
Throw(e) == [status |-> "throw", value |-> e]

NoCall == [fn |-> "none"]

----------------------------------------------------------------------------
(* Sequence helpers *)

Reverse(s) == [i \in 1..Len(s) |-> s[Len(s) + 1 - i]]

RECURSIVE SeqMap(_, _)
SeqMap(Op(_), s) ==
  IF s = <<>> THEN <<>> ELSE <<Op(Head(s))>> \o SeqMap(Op, Tail(s))

----------------------------------------------------------------------------
(* utils.ts: mergeHooks *)

IdOf(h) == h.id

\* a variant of beforeRequestHooks that reverses the array
beforeRequestHooks_Reversed(hl) ==
  Reverse(SeqMap(IdOf, SelectSeq(hl, LAMBDA h : Defines(h, "beforeRequest"))))

beforeRequestHooks(hl) ==
  SeqMap(IdOf, SelectSeq(hl, LAMBDA h : Defines(h, "beforeRequest")))

\* a variant of afterResponseHooks without .reverse()
afterResponseHooks_Forward(hl) ==
  SeqMap(IdOf, SelectSeq(hl, LAMBDA h : Defines(h, "afterResponse")))

afterResponseHooks(hl) ==
  Reverse(SeqMap(IdOf, SelectSeq(hl, LAMBDA h : Defines(h, "afterResponse"))))

onErrorHooks(hl) ==
  SeqMap(IdOf, SelectSeq(hl, LAMBDA h : Defines(h, "onError")))

\* a variant of mergeHooks that assigns the three closures unconditionally
mergeHooks_AlwaysAssigned(hl) ==
  [beforeRequest |-> beforeRequestHooks(hl),
   afterResponse |-> afterResponseHooks(hl),
   onError       |-> onErrorHooks(hl)]

\* The merged Hooks object: a key is present only when its array is not
\* empty; the value of a key is the array its closure iterates over.
mergeHooks(hl) ==
  LET arr == [beforeRequest |-> beforeRequestHooks(hl),
              afterResponse |-> afterResponseHooks(hl),
              onError       |-> onErrorHooks(hl)]
  IN  [k \in {k \in Kinds : Len(arr[k]) > 0} |-> arr[k]]

Has(hooks, kind) == kind \in DOMAIN hooks

----------------------------------------------------------------------------
(* Stack helpers *)

Top(c) == stack[c][Len(stack[c])]
Running(c, fn) == stack[c] # <<>> /\ Top(c).fn = fn
Below(c) == SubSeq(stack[c], 1, Len(stack[c]) - 1)

\* the top frame becomes f and the frames fs are entered from it
Enter(c, f, fs) == [stack EXCEPT ![c] = Append(Below(c), f) \o fs]
\* the top frame becomes f
Become(c, f) == [stack EXCEPT ![c] = Append(Below(c), f)]
\* the top frame completes
Pop(c) == [stack EXCEPT ![c] = Below(c)]

Logged(c, e) == [log EXCEPT ![c] = Append(@, e)]

\* frames of the three merged closures
MergedBeforeRequest(hooks, req) ==
  [fn |-> "merged.beforeRequest", hooks |-> hooks, i |-> 1, result |-> req]
MergedAfterResponse(hooks, response, req) ==
  [fn |-> "merged.afterResponse", hooks |-> hooks, i |-> 1,
   result |-> response, req |-> req]
MergedOnError(hooks, error) ==
  [fn |-> "merged.onError", hooks |-> hooks, i |-> 1, error |-> error]

Void == [void |-> TRUE]

\* number of createEnhancedFetch closures in progress in call c
RECURSIVE CountFn(_, _)
CountFn(s, fn) ==
  IF s = <<>> THEN 0
  ELSE (IF Head(s).fn = fn THEN 1 ELSE 0) + CountFn(Tail(s), fn)

Layer(c) == CountFn(stack[c], "enhancedFetch")

HookEvent(c, op, src, arg, out) ==
  [op |-> op, src |-> src, arg |-> arg, out |-> out, layer |-> Layer(c)]

\* invocations of call c that failed so far
Faults(c) ==
  Len(SelectSeq(log[c], LAMBDA e :
        \/ e.op \in Kinds /\ e.out = "throw"
        \/ e.op = "fetch" /\ e.out \in {"notOk", "reject"}
        \/ e.op = "json" /\ e.out = "throw"))

\* what an invocation of a hook may do: return, or throw (reject)
HookOutcomes(c) ==
  IF Faults(c) < MaxFaults THEN {"return", "throw"} ELSE {"return"}

\* how the injected transport may settle: a response, ok or not, or a
\* rejection
FetchOutcomes(c) ==
  IF Faults(c) < MaxFaults THEN {"ok", "notOk", "reject"} ELSE {"ok"}

\* whether response.json() decodes the body
JsonOutcomes(c) ==
  IF Faults(c) < MaxFaults THEN BOOLEAN ELSE {TRUE}

----------------------------------------------------------------------------
(* utils.ts: the closures mergeHooks returns.  One action is one            *)
(* `await hook(...)` of the loop; the loop exit and `return` run in the     *)
(* same turn as the last hook's completion.                                 *)

\* what hook id returns for (url, init)
ApplyBeforeRequest(id, req) == Req(Append(req.url, id), Append(req.init, id))

\* what hook id returns for a response
ApplyAfterResponse(id, response) ==
  [response EXCEPT !.via = Append(@, id)]

\* a variant of MergedBeforeRequestStep whose `result` is declared once per
\* merged closure instead of once per invocation: an assignment to it is
\* seen by every invocation of the same closure that is in progress
MergedBeforeRequestStep_SharedResult(c) ==
  /\ Running(c, "merged.beforeRequest")
  /\ LET f  == Top(c)
         id == f.hooks[f.i]
     IN  \E out \in HookOutcomes(c) :
           /\ log' = Logged(c, HookEvent(c, "beforeRequest", id, f.result, out))
           /\ IF out = "throw"
              THEN /\ stack' = Pop(c)
                   /\ ret' = [ret EXCEPT ![c] = Throw(Err("beforeRequest", id))]
              ELSE LET result == ApplyBeforeRequest(id, f.result)
                       shared == [d \in Calls |->
                                    IF d # c /\ Running(d, "merged.beforeRequest")
                                       /\ Top(d).hooks = f.hooks
                                    THEN Append(Below(d),
                                                [Top(d) EXCEPT !.result = result])
                                    ELSE stack[d]]
                   IN  IF f.i < Len(f.hooks)
                       THEN /\ stack' = [shared EXCEPT ![c] =
                                           Append(Below(c),
                                                  [f EXCEPT !.i = @ + 1,
                                                            !.result = result])]
                            /\ ret' = ret
                       ELSE /\ stack' = [shared EXCEPT ![c] = Below(c)]
                            /\ ret' = [ret EXCEPT ![c] = Return(result)]
  /\ UNCHANGED <<client, hooksList, call>>

\* merged.beforeRequest, utils.ts:35-41
MergedBeforeRequestStep(c) ==
  /\ Running(c, "merged.beforeRequest")
  /\ LET f  == Top(c)
         id == f.hooks[f.i]
     IN  \E out \in HookOutcomes(c) :
           /\ log' = Logged(c, HookEvent(c, "beforeRequest", id, f.result, out))
           /\ IF out = "throw"
              THEN /\ stack' = Pop(c)
                   /\ ret' = [ret EXCEPT ![c] = Throw(Err("beforeRequest", id))]
              ELSE LET result == ApplyBeforeRequest(id, f.result)
                   IN  IF f.i < Len(f.hooks)
                       THEN /\ stack' = Become(c, [f EXCEPT !.i = @ + 1,
                                                             !.result = result])
                            /\ ret' = ret
                       ELSE /\ stack' = Pop(c)
                            /\ ret' = [ret EXCEPT ![c] = Return(result)]
  /\ UNCHANGED <<client, hooksList, call>>

\* merged.afterResponse, utils.ts:45-51
MergedAfterResponseStep(c) ==
  /\ Running(c, "merged.afterResponse")
  /\ LET f  == Top(c)
         id == f.hooks[f.i]
     IN  \E out \in HookOutcomes(c) :
           /\ log' = Logged(c, HookEvent(c, "afterResponse", id,
                                  [response |-> f.result, req |-> f.req], out))
           /\ IF out = "throw"
              THEN /\ stack' = Pop(c)
                   /\ ret' = [ret EXCEPT ![c] = Throw(Err("afterResponse", id))]
              ELSE LET result == ApplyAfterResponse(id, f.result)
                   IN  IF f.i < Len(f.hooks)
                       THEN /\ stack' = Become(c, [f EXCEPT !.i = @ + 1,
                                                             !.result = result])
                            /\ ret' = ret
                       ELSE /\ stack' = Pop(c)
                            /\ ret' = [ret EXCEPT ![c] = Return(result)]
  /\ UNCHANGED <<client, hooksList, call>>

\* merged.afterResponse, utils.ts:45-51, with a hook that replaces a response
\* that is not ok by one that is (a request made again by the hook, a cached
\* answer): what it returns has status 200
RecoveredResponse(id, response) == Response(200, Append(response.via, id))

MergedAfterResponseRecovers(c) ==
  /\ Running(c, "merged.afterResponse")
  /\ ~Top(c).result.ok
  /\ LET f  == Top(c)
         id == f.hooks[f.i]
         result == RecoveredResponse(id, f.result)
     IN  /\ log' = Logged(c, HookEvent(c, "afterResponse", id,
                                [response |-> f.result, req |-> f.req],
                                "recover"))
         /\ IF f.i < Len(f.hooks)
            THEN /\ stack' = Become(c, [f EXCEPT !.i = @ + 1,
                                                  !.result = result])
                 /\ ret' = ret
            ELSE /\ stack' = Pop(c)
                 /\ ret' = [ret EXCEPT ![c] = Return(result)]
  /\ UNCHANGED <<client, hooksList, call>>

\* merged.onError, utils.ts:55-59
MergedOnErrorStep(c) ==
  /\ Running(c, "merged.onError")
  /\ LET f  == Top(c)
         id == f.hooks[f.i]
     IN  \E out \in HookOutcomes(c) :
           /\ log' = Logged(c, HookEvent(c, "onError", id, f.error, out))
           /\ IF out = "throw"
              THEN /\ stack' = Pop(c)
                   /\ ret' = [ret EXCEPT ![c] = Throw(Err("onError", id))]
              ELSE IF f.i < Len(f.hooks)
                   THEN /\ stack' = Become(c, [f EXCEPT !.i = @ + 1])
                        /\ ret' = ret
                   ELSE /\ stack' = Pop(c)
                        /\ ret' = [ret EXCEPT ![c] = Return(Void)]
  /\ UNCHANGED <<client, hooksList, call>>

----------------------------------------------------------------------------
(* Direct use of mergeHooks: the caller merges hooksList and invokes one    *)
(* of the closures of the result.                                           *)

Url0 == <<"url">>
Init0 == <<"init">>
Req0 == Req(Url0, Init0)
FetchError == Err("fetch", "fetch")

HookIds == [i \in 1..(MaxSources + 1) |-> "h" \o ToString(i)]

\* what the i-th argument of mergeHooks may be
SourceOptions(i) ==
  {Undefined} \cup {HookSet(HookIds[i], kinds) : kinds \in SUBSET Kinds}

HooksLists ==
  UNION {{hl \in [1..n -> UNION {SourceOptions(i) : i \in 1..n}] :
            \A i \in 1..n : hl[i] \in SourceOptions(i)} : n \in 0..MaxSources}

CallMergedBeforeRequest(c) ==
  /\ call[c] = NoCall
  /\ Has(mergeHooks(hooksList), "beforeRequest")
  /\ call' = [call EXCEPT ![c] = [fn |-> "merged.beforeRequest", req |-> Req0]]
  /\ stack' = [stack EXCEPT ![c] =
                 <<MergedBeforeRequest(mergeHooks(hooksList).beforeRequest, Req0)>>]
  /\ UNCHANGED <<client, hooksList, ret, log>>

CallMergedAfterResponse(c) ==
  /\ call[c] = NoCall
  /\ Has(mergeHooks(hooksList), "afterResponse")
  /\ \E ok \in BOOLEAN :
       /\ call' = [call EXCEPT ![c] = [fn |-> "merged.afterResponse",
                                       response |-> Resp(ok, <<>>), req |-> Req0]]
       /\ stack' = [stack EXCEPT ![c] =
                      <<MergedAfterResponse(mergeHooks(hooksList).afterResponse,
                                            Resp(ok, <<>>), Req0)>>]
  /\ UNCHANGED <<client, hooksList, ret, log>>

CallMergedOnError(c) ==
  /\ call[c] = NoCall
  /\ Has(mergeHooks(hooksList), "onError")
  /\ call' = [call EXCEPT ![c] = [fn |-> "merged.onError", error |-> FetchError]]
  /\ stack' = [stack EXCEPT ![c] =
                 <<MergedOnError(mergeHooks(hooksList).onError, FetchError)>>]
  /\ UNCHANGED <<client, hooksList, ret, log>>

NoClient == [built |-> FALSE]

Idle ==
  /\ call = [c \in Calls |-> NoCall]
  /\ stack = [c \in Calls |-> <<>>]
  /\ ret = [c \in Calls |-> NoRet]
  /\ log = [c \in Calls |-> <<>>]

InitMerge ==
  /\ client = NoClient
  /\ hooksList \in HooksLists
  /\ Idle

NextMerge ==
  \/ CallMergedBeforeRequest("c1")
  \/ CallMergedAfterResponse("c1")
  \/ CallMergedOnError("c1")
  \/ MergedBeforeRequestStep("c1")
  \/ MergedAfterResponseStep("c1")
  \/ MergedOnErrorStep("c1")

SpecMerge == InitMerge /\ [][NextMerge]_vars

\* call c was made and has settled
Settled(c) == call[c] # NoCall /\ stack[c] = <<>>

----------------------------------------------------------------------------
(* utils.ts: createEnhancedFetch                                            *)
(*                                                                          *)
(* A fetch function is the list of the Hooks objects wrapped around the     *)
(* injected transport, outermost first: <<>> is the injected transport      *)
(* itself, createEnhancedFetch(f, hooks) puts hooks in front of f.          *)

Transport == <<>>

createEnhancedFetch(fetchInstance, hooks) == <<hooks>> \o fetchInstance

EnhancedFetch(fetchInstance, hooks, req, pc) ==
  [fn |-> "enhancedFetch", fetchInstance |-> fetchInstance, hooks |-> hooks,
   req |-> req, pc |-> pc, response |-> Void, error |-> Void]

\* a variant of InvokeFetch in which the innermost enhanced function calls
\* the injected transport a second time
RECURSIVE InvokeFetch_TransportTwice(_, _)
InvokeFetch_TransportTwice(f, req) ==
  IF f = Transport
  THEN <<[fn |-> "fetch", req |-> req], [fn |-> "fetch", req |-> req]>>
  ELSE LET hooks == Head(f)
       IN  IF Has(hooks, "beforeRequest")
           THEN <<EnhancedFetch(Tail(f), hooks, req, "awaitBeforeRequest"),
                  MergedBeforeRequest(hooks.beforeRequest, req)>>
           ELSE <<EnhancedFetch(Tail(f), hooks, req, "awaitFetch")>>
                \o InvokeFetch_TransportTwice(Tail(f), req)

\* The frames entered by calling fetch function f with (url, init), up to
\* the first await of each: utils.ts:72-88 for an enhanced function (to the
\* await of hooks.beforeRequest, or without that hook to the await of
\* fetchInstance, which is entered in turn); the injected transport is one
\* frame that settles later.
RECURSIVE InvokeFetch(_, _)
InvokeFetch(f, req) ==
  IF f = Transport
  THEN <<[fn |-> "fetch", req |-> req]>>
  ELSE LET hooks == Head(f)
       IN  IF Has(hooks, "beforeRequest")
           THEN <<EnhancedFetch(Tail(f), hooks, req, "awaitBeforeRequest"),
                  MergedBeforeRequest(hooks.beforeRequest, req)>>
           ELSE <<EnhancedFetch(Tail(f), hooks, req, "awaitFetch")>>
                \o InvokeFetch(Tail(f), req)

\* the statuses of the responses the injected transport answers with
StatusesOf(out) == IF out = "ok" THEN {200} ELSE {404, 500}

\* the injected transport settles: a response (ok or not) or a rejection
FetchSettles(c) ==
  /\ Running(c, "fetch")
  /\ \E out \in FetchOutcomes(c) :
       /\ log' = Logged(c, HookEvent(c, "fetch", "fetch", Top(c).req, out))
       /\ \/ /\ out = "reject"
             /\ ret' = [ret EXCEPT ![c] = Throw(FetchError)]
          \/ /\ out # "reject"
             /\ \E status \in StatusesOf(out) :
                  ret' = [ret EXCEPT ![c] = Return(Response(status, <<>>))]
  /\ stack' = Pop(c)
  /\ UNCHANGED <<client, hooksList, call>>

\* a variant of EnhancedFetchBeforeRequestDone that takes the url of the
\* hook's result and keeps its own init
EnhancedFetchBeforeRequestDone_UrlOnly(c) ==
  /\ Running(c, "enhancedFetch")
  /\ Top(c).pc = "awaitBeforeRequest"
  /\ LET f == Top(c)
     IN  IF ret[c].status = "throw"
         THEN /\ stack' = Pop(c)
              /\ ret' = ret
              /\ log' = Logged(c, HookEvent(c, "enhancedFetch", "settle",
                                            ret[c].value, "throw"))
         ELSE /\ stack' = Enter(c, [f EXCEPT !.req = Req(ret[c].value.url, f.req.init),
                                             !.pc = "awaitFetch"],
                                InvokeFetch(f.fetchInstance,
                                            Req(ret[c].value.url, f.req.init)))
              /\ ret' = [ret EXCEPT ![c] = NoRet]
              /\ log' = log
  /\ UNCHANGED <<client, hooksList, call>>

\* utils.ts:81-88: hooks.beforeRequest has settled.  The await is outside
\* the try block: a rejection leaves the function as it is.
EnhancedFetchBeforeRequestDone(c) ==
  /\ Running(c, "enhancedFetch")
  /\ Top(c).pc = "awaitBeforeRequest"
  /\ LET f == Top(c)
     IN  IF ret[c].status = "throw"
         THEN /\ stack' = Pop(c)
              /\ ret' = ret
              /\ log' = Logged(c, HookEvent(c, "enhancedFetch", "settle",
                                            ret[c].value, "throw"))
         ELSE /\ stack' = Enter(c, [f EXCEPT !.req = ret[c].value,
                                             !.pc = "awaitFetch"],
                                InvokeFetch(f.fetchInstance, ret[c].value))
              /\ ret' = [ret EXCEPT ![c] = NoRet]
              /\ log' = log
  /\ UNCHANGED <<client, hooksList, call>>

\* a variant of Catch that rethrows without calling hooks.onError
Catch_SkipOnError(c, error) ==
  /\ stack' = Pop(c)
  /\ ret' = [ret EXCEPT ![c] = Throw(error)]
  /\ log' = Logged(c, HookEvent(c, "enhancedFetch", "settle", error, "throw"))

\* utils.ts:95-99, entry of the catch block with error: stack, ret, log
Catch(c, error) ==
  LET f == Top(c)
  IN  IF Has(f.hooks, "onError")
      THEN /\ stack' = Enter(c, [f EXCEPT !.pc = "awaitOnError",
                                          !.error = error],
                             <<MergedOnError(f.hooks.onError, error)>>)
           /\ ret' = [ret EXCEPT ![c] = NoRet]
           /\ log' = log
      ELSE /\ stack' = Pop(c)
           /\ ret' = [ret EXCEPT ![c] = Throw(error)]
           /\ log' = Logged(c, HookEvent(c, "enhancedFetch", "settle",
                                         error, "throw"))

\* a variant of EnhancedFetchFetchDone that calls fetchInstance again when
\* it rejected
EnhancedFetchFetchDone_Retry(c) ==
  /\ Running(c, "enhancedFetch")
  /\ Top(c).pc = "awaitFetch"
  /\ LET f == Top(c)
     IN  IF ret[c].status = "throw"
         THEN /\ stack' = Enter(c, f, InvokeFetch(f.fetchInstance, f.req))
              /\ ret' = [ret EXCEPT ![c] = NoRet]
              /\ log' = log
         ELSE IF Has(f.hooks, "afterResponse")
              THEN /\ stack' = Enter(c, [f EXCEPT !.pc = "awaitAfterResponse",
                                               !.response = ret[c].value],
                                     <<MergedAfterResponse(f.hooks.afterResponse,
                                                           ret[c].value, f.req)>>)
                   /\ ret' = [ret EXCEPT ![c] = NoRet]
                   /\ log' = log
              ELSE /\ stack' = Pop(c)
                   /\ ret' = ret
                   /\ log' = Logged(c, HookEvent(c, "enhancedFetch", "settle",
                                                 ret[c].value, "return"))
  /\ UNCHANGED <<client, hooksList, call>>

\* a variant of EnhancedFetchFetchDone that hands to hooks.afterResponse the
\* responses that are ok only
EnhancedFetchFetchDone_OkOnly(c) ==
  /\ Running(c, "enhancedFetch")
  /\ Top(c).pc = "awaitFetch"
  /\ LET f == Top(c)
     IN  IF ret[c].status = "throw"
         THEN Catch(c, ret[c].value)
         ELSE IF Has(f.hooks, "afterResponse") /\ ret[c].value.ok
              THEN /\ stack' = Enter(c, [f EXCEPT !.pc = "awaitAfterResponse",
                                               !.response = ret[c].value],
                                     <<MergedAfterResponse(f.hooks.afterResponse,
                                                           ret[c].value, f.req)>>)
                   /\ ret' = [ret EXCEPT ![c] = NoRet]
                   /\ log' = log
              ELSE /\ stack' = Pop(c)
                   /\ ret' = ret
                   /\ log' = Logged(c, HookEvent(c, "enhancedFetch", "settle",
                                                 ret[c].value, "return"))
  /\ UNCHANGED <<client, hooksList, call>>

\* utils.ts:88-94: fetchInstance has settled
EnhancedFetchFetchDone(c) ==
  /\ Running(c, "enhancedFetch")
  /\ Top(c).pc = "awaitFetch"
  /\ LET f == Top(c)
     IN  IF ret[c].status = "throw"
         THEN Catch(c, ret[c].value)
         ELSE IF Has(f.hooks, "afterResponse")
              THEN /\ stack' = Enter(c, [f EXCEPT !.pc = "awaitAfterResponse",
                                               !.response = ret[c].value],
                                     <<MergedAfterResponse(f.hooks.afterResponse,
                                                           ret[c].value, f.req)>>)
                   /\ ret' = [ret EXCEPT ![c] = NoRet]
                   /\ log' = log
              ELSE /\ stack' = Pop(c)
                   /\ ret' = ret
                   /\ log' = Logged(c, HookEvent(c, "enhancedFetch", "settle",
                                                 ret[c].value, "return"))
  /\ UNCHANGED <<client, hooksList, call>>

\* a variant of EnhancedFetchAfterResponseDone that drops the result of
\* hooks.afterResponse and returns the response of fetchInstance
EnhancedFetchAfterResponseDone_DropsResult(c) ==
  /\ Running(c, "enhancedFetch")
  /\ Top(c).pc = "awaitAfterResponse"
  /\ IF ret[c].status = "throw"
     THEN Catch(c, ret[c].value)
     ELSE /\ stack' = Pop(c)
          /\ ret' = [ret EXCEPT ![c] = Return(Top(c).response)]
          /\ log' = Logged(c, HookEvent(c, "enhancedFetch", "settle",
                                        Top(c).response, "return"))
  /\ UNCHANGED <<client, hooksList, call>>

\* a variant of EnhancedFetchAfterResponseDone for an enhanced function that
\* calls fetchInstance once more after hooks.afterResponse and returns what
\* that call gives
EnhancedFetchAfterResponseDone_ThenFetch(c) ==
  /\ Running(c, "enhancedFetch")
  /\ Top(c).pc = "awaitAfterResponse"
  /\ IF ret[c].status = "throw"
     THEN Catch(c, ret[c].value)
     ELSE LET f == Top(c)
          IN  /\ stack' = Enter(c, [f EXCEPT !.pc = "awaitReturn"],
                                InvokeFetch(f.fetchInstance, f.req))
              /\ ret' = [ret EXCEPT ![c] = NoRet]
              /\ log' = log
  /\ UNCHANGED <<client, hooksList, call>>

\* utils.ts:91-94: hooks.afterResponse has settled
EnhancedFetchAfterResponseDone(c) ==
  /\ Running(c, "enhancedFetch")
  /\ Top(c).pc = "awaitAfterResponse"
  /\ IF ret[c].status = "throw"
     THEN Catch(c, ret[c].value)
     ELSE /\ stack' = Pop(c)
          /\ ret' = ret
          /\ log' = Logged(c, HookEvent(c, "enhancedFetch", "settle",
                                        ret[c].value, "return"))
  /\ UNCHANGED <<client, hooksList, call>>

\* utils.ts:97-99: hooks.onError has settled; `throw error` is reached only
\* when it resolved, its own rejection leaves the catch block instead
EnhancedFetchOnErrorDone(c) ==
  /\ Running(c, "enhancedFetch")
  /\ Top(c).pc = "awaitOnError"
  /\ stack' = Pop(c)
  /\ LET thrown == IF ret[c].status = "throw" THEN ret[c].value
                   ELSE Top(c).error
     IN  /\ ret' = [ret EXCEPT ![c] = Throw(thrown)]
         /\ log' = Logged(c, HookEvent(c, "enhancedFetch", "settle",
                                       thrown, "throw"))
  /\ UNCHANGED <<client, hooksList, call>>

\* direct use: createEnhancedFetch(fetch, mergeHooks(...hooksList))(url, init)
CallEnhancedFetch(c) ==
  /\ call[c] = NoCall
  /\ call' = [call EXCEPT ![c] = [fn |-> "enhancedFetch", req |-> Req0,
                                  hooks |-> mergeHooks(hooksList)]]
  /\ stack' = [stack EXCEPT ![c] =
                 InvokeFetch(createEnhancedFetch(Transport, mergeHooks(hooksList)),
                             Req0)]
  /\ UNCHANGED <<client, hooksList, ret, log>>

InitEnhanced == InitMerge

NextEnhanced ==
  \/ CallEnhancedFetch("c1")
  \/ MergedBeforeRequestStep("c1")
  \/ MergedAfterResponseStep("c1")
  \/ MergedOnErrorStep("c1")
  \/ FetchSettles("c1")
  \/ EnhancedFetchBeforeRequestDone("c1")
  \/ EnhancedFetchFetchDone("c1")
  \/ EnhancedFetchAfterResponseDone("c1")
  \/ EnhancedFetchOnErrorDone("c1")

SpecEnhanced == InitEnhanced /\ [][NextEnhanced]_vars

----------------------------------------------------------------------------
(* types.ts and client.ts: descriptors                                      *)
(*                                                                          *)
(* A JS object is a function from its keys; an object whose key order       *)
(* matters (the definitions walked with Object.entries) is the sequence of  *)
(* its entries.                                                             *)

Entry(name, def) == [name |-> name, def |-> def]

EndpointConfig(hooks, handler) ==
  [method |-> "GET", path |-> "/path", hooks |-> hooks, handler |-> handler]

\* an endpoint's path that is a function of the input, types.ts:9: the value
\* for which `typeof endpoint.path === 'function'` holds
PathFunction == "(input) => path"

\* an endpoint whose path is a function
WithPathFunction(endpoint) == [endpoint EXCEPT !.path = PathFunction]

\* a variant of isGroupConfig that also takes an object without a method
\* for a group
isGroupConfig_OrNoMethod(config) ==
  \/ "endpoints" \in DOMAIN config \/ "groups" \in DOMAIN config
  \/ "method" \notin DOMAIN config

\* types.ts:113-115
isGroupConfig(config) ==
  "endpoints" \in DOMAIN config \/ "groups" \in DOMAIN config

EmptyObject == [k \in {} |-> k]

\* a variant of ObjectAssign that keeps the properties the target has
ObjectAssign_TargetWins(target, source) == target @@ source

\* Object.assign(target, source), and {...target, ...source}
ObjectAssign(target, source) == source @@ target

\* plugins.map(p => p.hooks).filter(Boolean), client.ts:135
pluginHooks(plugins) ==
  SelectSeq(SeqMap(LAMBDA p : p.hooks, plugins), LAMBDA h : h # Undefined)

\* the async function stored under an endpoint's name, client.ts:140: what
\* its closure captured
Callable(endpoint, mergedHooks) ==
  [endpoint |-> endpoint, mergedHooks |-> mergedHooks]

IsCallable(x) == DOMAIN x = {"endpoint", "mergedHooks"}

\* a variant of mergedHooks that puts the global hooks before the plugins'
mergedHooks_GlobalFirst(plugins, config, parentHooks, endpoint) ==
  mergeHooks(<<config.hooks>> \o pluginHooks(plugins)
             \o parentHooks \o <<endpoint.hooks>>)

\* client.ts:135-138: plugin -> global -> group -> endpoint
mergedHooks(plugins, config, parentHooks, endpoint) ==
  mergeHooks(pluginHooks(plugins) \o <<config.hooks>>
             \o parentHooks \o <<endpoint.hooks>>)

\* a variant of processEndpoints_SharedParentHooks in which a group pushes its hooks onto the
\* array it was given, so that they stay there for the definitions after it
RECURSIVE processEndpoints_SharedParentHooks(_, _, _, _, _)
processEndpoints_SharedParentHooks(definitions, config, fetchInstance, parentHooks, plugins) ==
  IF definitions = <<>> THEN EmptyObject
  ELSE
    LET name       == Head(definitions).name
        definition == Head(definitions).def
        groupHooks == IF definition.hooks # Undefined
                      THEN Append(parentHooks, definition.hooks)
                      ELSE parentHooks
        nestedEndpoints ==
          IF "endpoints" \in DOMAIN definition
          THEN processEndpoints_SharedParentHooks(definition.endpoints, config, fetchInstance,
                                groupHooks, plugins)
          ELSE EmptyObject
        nestedGroups ==
          IF "groups" \in DOMAIN definition
          THEN processEndpoints_SharedParentHooks(definition.groups, config, fetchInstance,
                                groupHooks, plugins)
          ELSE EmptyObject
        value ==
          IF isGroupConfig(definition)
          THEN ObjectAssign(ObjectAssign(EmptyObject, nestedEndpoints),
                            nestedGroups)
          ELSE Callable(definition,
                        mergedHooks(plugins, config, parentHooks, definition))
    IN  ObjectAssign(name :> value,
                     processEndpoints_SharedParentHooks(Tail(definitions), config,
                                      fetchInstance,
                                      IF isGroupConfig(definition)
                                      THEN groupHooks ELSE parentHooks,
                                      plugins))

\* client.ts:92-197
RECURSIVE processEndpoints(_, _, _, _, _)
processEndpoints(definitions, config, fetchInstance, parentHooks, plugins) ==
  IF definitions = <<>> THEN EmptyObject
  ELSE
    LET name       == Head(definitions).name
        definition == Head(definitions).def
        groupHooks == IF definition.hooks # Undefined
                      THEN Append(parentHooks, definition.hooks)
                      ELSE parentHooks
        nestedEndpoints ==
          IF "endpoints" \in DOMAIN definition
          THEN processEndpoints(definition.endpoints, config, fetchInstance,
                                groupHooks, plugins)
          ELSE EmptyObject
        nestedGroups ==
          IF "groups" \in DOMAIN definition
          THEN processEndpoints(definition.groups, config, fetchInstance,
                                groupHooks, plugins)
          ELSE EmptyObject
        value ==
          IF isGroupConfig(definition)
          THEN ObjectAssign(ObjectAssign(EmptyObject, nestedEndpoints),
                            nestedGroups)
          ELSE Callable(definition,
                        mergedHooks(plugins, config, parentHooks, definition))
    IN  ObjectAssign(name :> value,
                     processEndpoints(Tail(definitions), config, fetchInstance,
                                      parentHooks, plugins))

\* a variant of createApiClient that always adds a plugins namespace
createApiClient_PluginsAlways(endpoints, config) ==
  ObjectAssign(processEndpoints(endpoints, config, Transport, <<>>,
                                config.plugins),
               "plugins" :> EmptyObject)

\* client.ts:268-282
createApiClient(endpoints, config) ==
  processEndpoints(endpoints, config, Transport, <<>>, config.plugins)

\* the chains of property names that lead to a callable of a built client
RECURSIVE Paths(_)
Paths(obj) ==
  UNION {IF IsCallable(obj[n]) THEN {<<n>>}
         ELSE {<<n>> \o p : p \in Paths(obj[n])} : n \in DOMAIN obj}

RECURSIVE Lookup(_, _)
Lookup(obj, path) ==
  IF Len(path) = 1 THEN obj[path[1]] ELSE Lookup(obj[path[1]], Tail(path))

----------------------------------------------------------------------------
(* client.ts: one endpoint call                                             *)
(*                                                                          *)
(* A handler function is its base handler and the plugins whose wrappers    *)
(* were put around it, innermost first.                                     *)

\* a variant of applyHandlerWrappers that puts the wrapper of the first
\* plugin outermost
applyHandlerWrappers_FirstOutermost(baseHandler, plugins, endpoint) ==
  [base |-> baseHandler,
   wrappers |-> Reverse(SeqMap(LAMBDA p : p.name,
                               SelectSeq(plugins, LAMBDA p : p.handlerWrapper)))]

\* client.ts:77-86: the loop over plugins, each wrapper put around the last
applyHandlerWrappers(baseHandler, plugins, endpoint) ==
  [base |-> baseHandler,
   wrappers |-> SeqMap(LAMBDA p : p.name,
                       SelectSeq(plugins, LAMBDA p : p.handlerWrapper))]

\* the frames entered by calling handler function h with (input, context)
InvokeHandler(h, context) ==
  IF h.wrappers # <<>>
  THEN <<[fn |-> "wrapper", plugin |-> h.wrappers[Len(h.wrappers)],
          original |-> [h EXCEPT !.wrappers = SubSeq(@, 1, Len(@) - 1)],
          context |-> context, pc |-> "start"]>>
  ELSE <<[fn |-> h.base.fn, hooks |-> h.base.hooks, context |-> context,
          pc |-> "start", fetches |-> 0, response |-> Void]>>

\* the (url, options) defaultHandler builds, client.ts:24-36
DefaultRequest == Req0
\* the (url, init) a custom handler passes to context.fetch
HandlerRequest == Req0

\* what resolving the path of an endpoint does, client.ts:141-143: a literal
\* path is used as it is; a path function is invoked with the input and
\* returns the path or throws
PathOutcomes(endpoint) ==
  IF endpoint.path = PathFunction THEN {"return", "throw"} ELSE {"literal"}

\* a variant of CallEndpoint whose context carries the injected fetch as it
\* is, without hooks
CallEndpoint_PlainContextFetch(c) ==
  /\ call[c] = NoCall
  /\ client # NoClient
  /\ \E path \in Paths(client.api) :
     \E resolved \in PathOutcomes(Lookup(client.api, path).endpoint) :
       LET f == Lookup(client.api, path)
           resolution ==
             IF resolved = "literal" THEN <<>>
             ELSE <<HookEvent(c, "path", "endpoint", Void, resolved)>>
           baseHandler ==
             IF f.endpoint.handler # "undefined"
             THEN [fn |-> "handler", hooks |-> f.mergedHooks]
             ELSE [fn |-> "defaultHandler", hooks |-> f.mergedHooks]
           wrappedHandler ==
             applyHandlerWrappers(baseHandler, client.config.plugins, f.endpoint)
           enhancedFetch == Transport
           wrapping ==
             SeqMap(LAMBDA p : HookEvent(c, "handlerWrapper", p,
                                         f.endpoint, "return"),
                    wrappedHandler.wrappers)
       IN  /\ call' = [call EXCEPT ![c] =
                         [fn |-> "endpoint", path |-> path,
                          endpoint |-> f.endpoint, hooks |-> f.mergedHooks]]
           /\ IF resolved = "throw"
              THEN /\ log' = [log EXCEPT ![c] = resolution]
                   /\ stack' = stack
                   /\ ret' = [ret EXCEPT ![c] = Throw(Err("path", "endpoint"))]
              ELSE /\ log' = [log EXCEPT ![c] = resolution \o wrapping]
                   /\ stack' = [stack EXCEPT ![c] =
                                  InvokeHandler(wrappedHandler,
                                                [fetch |-> enhancedFetch])]
                   /\ ret' = ret
  /\ UNCHANGED <<client, hooksList>>

\* a variant of CallEndpoint in which the plugins' handlerWrapper functions
\* are invoked by the first call of the client only, later calls using the
\* chain that call built
CallEndpoint_ChainBuiltOnce(c) ==
  /\ call[c] = NoCall
  /\ client # NoClient
  /\ \E path \in Paths(client.api) :
     \E resolved \in PathOutcomes(Lookup(client.api, path).endpoint) :
       LET f == Lookup(client.api, path)
           resolution ==
             IF resolved = "literal" THEN <<>>
             ELSE <<HookEvent(c, "path", "endpoint", Void, resolved)>>
           baseHandler ==
             IF f.endpoint.handler # "undefined"
             THEN [fn |-> "handler", hooks |-> f.mergedHooks]
             ELSE [fn |-> "defaultHandler", hooks |-> f.mergedHooks]
           wrappedHandler ==
             applyHandlerWrappers(baseHandler, client.config.plugins, f.endpoint)
           enhancedFetch == createEnhancedFetch(Transport, f.mergedHooks)
           first == \A d \in Calls : call[d] = NoCall
           wrapping ==
             SeqMap(LAMBDA p : HookEvent(c, "handlerWrapper", p,
                                         f.endpoint, "return"),
                    wrappedHandler.wrappers)
       IN  /\ call' = [call EXCEPT ![c] =
                         [fn |-> "endpoint", path |-> path,
                          endpoint |-> f.endpoint, hooks |-> f.mergedHooks]]
           /\ IF resolved = "throw"
              THEN /\ log' = [log EXCEPT ![c] = resolution]
                   /\ stack' = stack
                   /\ ret' = [ret EXCEPT ![c] = Throw(Err("path", "endpoint"))]
              ELSE /\ log' = [log EXCEPT ![c] = resolution \o (IF first THEN wrapping ELSE <<>>)]
                   /\ stack' = [stack EXCEPT ![c] =
                                  InvokeHandler(wrappedHandler,
                                                [fetch |-> enhancedFetch])]
                   /\ ret' = ret
  /\ UNCHANGED <<client, hooksList>>

\* client.ts:140-192: the call of an endpoint function up to its first
\* await: path resolved, base handler chosen, wrappers applied, context
\* built, the wrapped handler entered. A path function that throws rejects
\* the call before anything else is done
CallEndpoint(c) ==
  /\ call[c] = NoCall
  /\ client # NoClient
  /\ \E path \in Paths(client.api) :
     \E resolved \in PathOutcomes(Lookup(client.api, path).endpoint) :
       LET f == Lookup(client.api, path)
           resolution ==
             IF resolved = "literal" THEN <<>>
             ELSE <<HookEvent(c, "path", "endpoint", Void, resolved)>>
           baseHandler ==
             IF f.endpoint.handler # "undefined"
             THEN [fn |-> "handler", hooks |-> f.mergedHooks]
             ELSE [fn |-> "defaultHandler", hooks |-> f.mergedHooks]
           wrappedHandler ==
             applyHandlerWrappers(baseHandler, client.config.plugins, f.endpoint)
           enhancedFetch == createEnhancedFetch(Transport, f.mergedHooks)
           wrapping ==
             SeqMap(LAMBDA p : HookEvent(c, "handlerWrapper", p,
                                         f.endpoint, "return"),
                    wrappedHandler.wrappers)
       IN  /\ call' = [call EXCEPT ![c] =
                         [fn |-> "endpoint", path |-> path,
                          endpoint |-> f.endpoint, hooks |-> f.mergedHooks]]
           /\ IF resolved = "throw"
              THEN /\ log' = [log EXCEPT ![c] = resolution]
                   /\ stack' = stack
                   /\ ret' = [ret EXCEPT ![c] = Throw(Err("path", "endpoint"))]
              ELSE /\ log' = [log EXCEPT ![c] = resolution \o wrapping]
                   /\ stack' = [stack EXCEPT ![c] =
                                  InvokeHandler(wrappedHandler,
                                                [fetch |-> enhancedFetch])]
                   /\ ret' = ret
  /\ UNCHANGED <<client, hooksList>>

MaxRetries == 1          \* times the wrappers of one call re-invoke their original
MaxHandlerFetches == 2   \* times a custom handler calls context.fetch

Retries(c) ==
  Len(SelectSeq(log[c], LAMBDA e : e.op = "wrapper" /\ e.out = "retry"))

\* what a plugin's wrapper returns when it does not use its original
WrapperResult(plugin) == [from |-> plugin]

\* a variant of WrapperStart in which a wrapper that returns a result of its
\* own has its original invoked all the same
WrapperStart_SkipStillInvokes(c) ==
  /\ Running(c, "wrapper")
  /\ Top(c).pc = "start"
  /\ LET f == Top(c)
     IN  \/ /\ log' = Logged(c, HookEvent(c, "wrapper", f.plugin, Void, "invoke"))
            /\ stack' = Enter(c, [f EXCEPT !.pc = "awaitOriginal"],
                              InvokeHandler(f.original, f.context))
            /\ ret' = [ret EXCEPT ![c] = NoRet]
         \/ /\ log' = Logged(c, HookEvent(c, "wrapper", f.plugin, Void, "skip"))
            /\ stack' = Enter(c, [f EXCEPT !.pc = "awaitOriginal"],
                              InvokeHandler(f.original, f.context))
            /\ ret' = [ret EXCEPT ![c] = NoRet]
  /\ UNCHANGED <<client, hooksList, call>>

\* the function a plugin's handlerWrapper returned is entered: it invokes
\* its original, or returns a result of its own
WrapperStart(c) ==
  /\ Running(c, "wrapper")
  /\ Top(c).pc = "start"
  /\ LET f == Top(c)
     IN  \/ /\ log' = Logged(c, HookEvent(c, "wrapper", f.plugin, Void, "invoke"))
            /\ stack' = Enter(c, [f EXCEPT !.pc = "awaitOriginal"],
                              InvokeHandler(f.original, f.context))
            /\ ret' = [ret EXCEPT ![c] = NoRet]
         \/ /\ log' = Logged(c, HookEvent(c, "wrapper", f.plugin, Void, "skip"))
            /\ stack' = Pop(c)
            /\ ret' = [ret EXCEPT ![c] = Return(WrapperResult(f.plugin))]
  /\ UNCHANGED <<client, hooksList, call>>

\* the original of a wrapper has settled: the wrapper settles the same way,
\* or invokes its original once more
WrapperOriginalDone(c) ==
  /\ Running(c, "wrapper")
  /\ Top(c).pc = "awaitOriginal"
  /\ LET f == Top(c)
     IN  \/ /\ log' = Logged(c, HookEvent(c, "wrapper.after", f.plugin, Void,
                                          ret[c].status))
            /\ stack' = Pop(c)
            /\ ret' = ret
         \/ /\ Retries(c) < MaxRetries
            /\ log' = Logged(c, HookEvent(c, "wrapper", f.plugin, Void, "retry"))
            /\ stack' = Enter(c, f, InvokeHandler(f.original, f.context))
            /\ ret' = [ret EXCEPT ![c] = NoRet]
  /\ UNCHANGED <<client, hooksList, call>>

\* what a custom handler resolves with
HandlerResult(fetches) == [from |-> "handler", fetches |-> fetches]

\* a variant of HandlerStart in which the fetch the handler is given is
\* wrapped with the merged hooks once more, as defaultHandler does
HandlerStart_Rewrapped(c) ==
  /\ Running(c, "handler")
  /\ Top(c).pc = "start"
  /\ log' = Logged(c, HookEvent(c, "handler", "handler", Void, "invoke"))
  /\ LET f == Top(c)
         enhancedFetch == createEnhancedFetch(f.context.fetch, f.hooks)
     IN  \/ /\ stack' = Enter(c, [f EXCEPT !.pc = "awaitFetch", !.fetches = 1],
                              InvokeFetch(enhancedFetch, HandlerRequest))
            /\ ret' = [ret EXCEPT ![c] = NoRet]
         \/ /\ stack' = Pop(c)
            /\ ret' = [ret EXCEPT ![c] = Return(HandlerResult(0))]
  /\ UNCHANGED <<client, hooksList, call>>

\* client.ts:158-166: the endpoint's own handler is entered: it calls
\* context.fetch, or returns without it
HandlerStart(c) ==
  /\ Running(c, "handler")
  /\ Top(c).pc = "start"
  /\ log' = Logged(c, HookEvent(c, "handler", "handler", Void, "invoke"))
  /\ LET f == Top(c)
     IN  \/ /\ stack' = Enter(c, [f EXCEPT !.pc = "awaitFetch", !.fetches = 1],
                              InvokeFetch(f.context.fetch, HandlerRequest))
            /\ ret' = [ret EXCEPT ![c] = NoRet]
         \/ /\ stack' = Pop(c)
            /\ ret' = [ret EXCEPT ![c] = Return(HandlerResult(0))]
  /\ UNCHANGED <<client, hooksList, call>>

\* context.fetch has settled in a custom handler: a rejection leaves the
\* handler; after a response it returns or calls context.fetch again
HandlerFetchDone(c) ==
  /\ Running(c, "handler")
  /\ Top(c).pc = "awaitFetch"
  /\ LET f == Top(c)
     IN  IF ret[c].status = "throw"
         THEN /\ stack' = Pop(c)
              /\ ret' = ret
         ELSE \/ /\ stack' = Pop(c)
                 /\ ret' = [ret EXCEPT ![c] = Return(HandlerResult(f.fetches))]
              \/ /\ f.fetches < MaxHandlerFetches
                 /\ stack' = Enter(c, [f EXCEPT !.fetches = @ + 1],
                                   InvokeFetch(f.context.fetch, HandlerRequest))
                 /\ ret' = [ret EXCEPT ![c] = NoRet]
  /\ UNCHANGED <<client, hooksList, call, log>>

\* a variant of DefaultHandlerStart that uses context.fetch as it is
DefaultHandlerStart_ContextFetch(c) ==
  /\ Running(c, "defaultHandler")
  /\ Top(c).pc = "start"
  /\ LET f == Top(c)
     IN  stack' = Enter(c, [f EXCEPT !.pc = "awaitFetch"],
                        InvokeFetch(f.context.fetch, DefaultRequest))
  /\ log' = Logged(c, HookEvent(c, "defaultHandler", "defaultHandler",
                                DefaultRequest, "invoke"))
  /\ ret' = [ret EXCEPT ![c] = NoRet]
  /\ UNCHANGED <<client, hooksList, call>>

\* a variant of DefaultHandlerStart that also calls the injected fetch
\* directly
DefaultHandlerStart_FetchTwice(c) ==
  /\ Running(c, "defaultHandler")
  /\ Top(c).pc = "start"
  /\ LET f == Top(c)
         enhancedFetch == createEnhancedFetch(f.context.fetch, f.hooks)
     IN  stack' = Enter(c, [f EXCEPT !.pc = "awaitFetch"],
                        InvokeFetch(enhancedFetch, DefaultRequest)
                        \o InvokeFetch(Transport, DefaultRequest))
  /\ log' = Logged(c, HookEvent(c, "defaultHandler", "defaultHandler",
                                DefaultRequest, "invoke"))
  /\ ret' = [ret EXCEPT ![c] = NoRet]
  /\ UNCHANGED <<client, hooksList, call>>

\* client.ts:169-178 and 24-39: the default base handler runs defaultHandler
\* up to `await enhancedFetch(url, options)`, with an enhanced fetch of its
\* own around context.fetch
DefaultHandlerStart(c) ==
  /\ Running(c, "defaultHandler")
  /\ Top(c).pc = "start"
  /\ LET f == Top(c)
         enhancedFetch == createEnhancedFetch(f.context.fetch, f.hooks)
     IN  stack' = Enter(c, [f EXCEPT !.pc = "awaitFetch"],
                        InvokeFetch(enhancedFetch, DefaultRequest))
  /\ log' = Logged(c, HookEvent(c, "defaultHandler", "defaultHandler",
                                DefaultRequest, "invoke"))
  /\ ret' = [ret EXCEPT ![c] = NoRet]
  /\ UNCHANGED <<client, hooksList, call>>

\* a variant of RequestFailure that does not carry the decoded body
RequestFailure_EmptyError(response, error) ==
  [status |-> response.status, statusText |-> response.statusText,
   error |-> EmptyObject]

\* client.ts:43-47: the value thrown for a response that is not ok
RequestFailure(response, error) ==
  [status |-> response.status, statusText |-> response.statusText,
   error |-> error]

\* a variant of Decoded for `return response` in place of
\* `return response.json()`
Decoded_Undecoded(response) == response

Decoded(response) == [json |-> response]

\* a variant of DefaultHandlerFetchDone without the `if (!response.ok)`
\* branch
DefaultHandlerFetchDone_NoOkCheck(c) ==
  /\ Running(c, "defaultHandler")
  /\ Top(c).pc = "awaitFetch"
  /\ IF ret[c].status = "throw"
     THEN /\ stack' = Pop(c)
          /\ ret' = ret
          /\ log' = log
     ELSE LET f == Top(c)
              response == ret[c].value
          IN  \E decodes \in JsonOutcomes(c) :
                /\ stack' = Become(c, [f EXCEPT !.pc = "returnJson",
                                                !.response = response])
                /\ log' = Logged(c, HookEvent(c, "json", "response", response,
                                   IF decodes THEN "return" ELSE "throw"))
                /\ ret' = [ret EXCEPT ![c] =
                     IF decodes THEN Return(Decoded(response))
                     ELSE Throw(Err("json", "response"))]
  /\ UNCHANGED <<client, hooksList, call>>

\* client.ts:39-42, 50: enhancedFetch has settled. A rejection leaves
\* defaultHandler; after a response, response.json() is called, in the
\* branch of a response that is not ok (line 42) or in the return statement
\* (line 50), and defaultHandler waits for it: ret[c] is what the promise of
\* response.json() settles with
DefaultHandlerFetchDone(c) ==
  /\ Running(c, "defaultHandler")
  /\ Top(c).pc = "awaitFetch"
  /\ IF ret[c].status = "throw"
     THEN /\ stack' = Pop(c)
          /\ ret' = ret
          /\ log' = log
     ELSE LET f == Top(c)
              response == ret[c].value
          IN  \E decodes \in JsonOutcomes(c) :
                /\ stack' = Become(c, [f EXCEPT !.pc = IF ~response.ok
                                                       THEN "awaitErrorJson"
                                                       ELSE "returnJson",
                                                !.response = response])
                /\ log' = Logged(c, HookEvent(c, "json", "response", response,
                                   IF decodes THEN "return" ELSE "throw"))
                /\ ret' = [ret EXCEPT ![c] =
                     IF decodes THEN Return(Decoded(response))
                     ELSE Throw(Err("json", "response"))]
  /\ UNCHANGED <<client, hooksList, call>>

\* client.ts:42-50: response.json() has settled, in a later turn than the
\* one that called it. In the branch of a response that is not ok a failed
\* decode is caught and gives {}, and {status, statusText, error} is thrown;
\* in the return statement defaultHandler settles as response.json() did
DefaultHandlerJsonDone(c) ==
  /\ Running(c, "defaultHandler")
  /\ Top(c).pc \in {"awaitErrorJson", "returnJson"}
  /\ LET f == Top(c)
     IN  ret' = [ret EXCEPT ![c] =
                   IF f.pc = "awaitErrorJson"
                   THEN Throw(RequestFailure(f.response,
                                IF ret[c].status = "return" THEN ret[c].value
                                ELSE EmptyObject))
                   ELSE ret[c]]
  /\ stack' = Pop(c)
  /\ UNCHANGED <<client, hooksList, call, log>>

----------------------------------------------------------------------------
(* The clients built                                                        *)

MaxPlugins == 2    \* plugins registered with a client
MaxDepth == 2      \* groups nested above the innermost endpoint

AllKinds(id) == HookSet(id, Kinds)

\* a Hooks object of the client configuration: absent, or all three hooks
HookChoices(id) == {Undefined, AllKinds(id)}

PluginName(i) == "p" \o ToString(i)
GroupName(d) == "g" \o ToString(d)

PluginLists ==
  UNION {{pl \in [1..n -> [name : {PluginName(i) : i \in 1..n},
                           hooks : UNION {HookChoices(PluginName(i)) : i \in 1..n},
                           handlerWrapper : BOOLEAN]] :
            \A i \in 1..n : /\ pl[i].name = PluginName(i)
                            /\ pl[i].hooks \in HookChoices(PluginName(i))} :
         n \in 0..MaxPlugins}

\* the group at depth d of a chain of nested groups: an endpoint of its
\* own, and below MaxDepth the next group
RECURSIVE NestedGroup(_, _, _)
NestedGroup(d, groupHooks, endpoint) ==
  IF d < MaxDepth
  THEN [hooks |-> groupHooks[d],
        endpoints |-> <<Entry("call", endpoint)>>,
        groups |-> <<Entry(GroupName(d + 1),
                           NestedGroup(d + 1, groupHooks, endpoint))>>]
  ELSE [hooks |-> groupHooks[d],
        endpoints |-> <<Entry("call", endpoint)>>]

\* an endpoint at the top, the chain of nested groups, and a group beside it
Definitions(groupHooks, endpoint) ==
  <<Entry("call", endpoint),
    Entry(GroupName(1), NestedGroup(1, groupHooks, endpoint)),
    Entry("other", [hooks |-> AllKinds("other"),
                    endpoints |-> <<Entry("call", endpoint)>>])>>

Built(endpoints, config) ==
  [endpoints |-> endpoints, config |-> config,
   api |-> createApiClient(endpoints, config)]

\* the levels of a configuration that define no hooks
Absent(plugins, globalHooks, groupHooks, endpointHooks) ==
  Cardinality({i \in 1..Len(plugins) : plugins[i].hooks = Undefined})
  + Cardinality({d \in 1..MaxDepth : groupHooks[d] = Undefined})
  + (IF globalHooks = Undefined THEN 1 ELSE 0)
  + (IF endpointHooks = Undefined THEN 1 ELSE 0)

\* The clients explored: plugins that contribute hooks only, and hooks
\* defined at every level but at most one, or at no level but at most one.
Init ==
  /\ \E plugins \in PluginLists,
        globalHooks \in HookChoices("global"),
        groupHooks \in [1..MaxDepth -> UNION {HookChoices(GroupName(d)) : d \in 1..MaxDepth}],
        endpointHooks \in HookChoices("endpoint"),
        handler \in {"undefined", "custom"} :
       /\ \A d \in 1..MaxDepth : groupHooks[d] \in HookChoices(GroupName(d))
       /\ \A i \in 1..Len(plugins) : ~plugins[i].handlerWrapper
       /\ LET levels == Len(plugins) + MaxDepth + 2
              absent == Absent(plugins, globalHooks, groupHooks, endpointHooks)
          IN  absent <= 1 \/ absent >= levels - 1
       /\ client = Built(Definitions(groupHooks,
                                     EndpointConfig(endpointHooks, handler)),
                         [baseUrl |-> "https://api", hooks |-> globalHooks,
                          plugins |-> plugins])
  /\ hooksList = <<>>
  /\ Idle

Next ==
  \/ CallEndpoint("c1")
  \/ HandlerStart("c1")
  \/ HandlerFetchDone("c1")
  \/ DefaultHandlerStart("c1")
  \/ DefaultHandlerFetchDone("c1")
  \/ DefaultHandlerJsonDone("c1")
  \/ MergedBeforeRequestStep("c1")
  \/ MergedAfterResponseStep("c1")
  \/ MergedOnErrorStep("c1")
  \/ FetchSettles("c1")
  \/ EnhancedFetchBeforeRequestDone("c1")
  \/ EnhancedFetchFetchDone("c1")
  \/ EnhancedFetchAfterResponseDone("c1")
  \/ EnhancedFetchOnErrorDone("c1")

Spec == Init /\ [][Next]_vars

\* The clients with handler wrappers: one endpoint without a handler of
\* its own, hooks at the global level only, every plugin with or without a
\* wrapper.
InitWrappers ==
  /\ \E plugins \in PluginLists,
        globalHooks \in HookChoices("global") :
       /\ \A i \in 1..Len(plugins) : plugins[i].hooks = Undefined
       /\ client = Built(<<Entry("call", EndpointConfig(Undefined, "undefined"))>>,
                         [baseUrl |-> "https://api", hooks |-> globalHooks,
                          plugins |-> plugins])
  /\ hooksList = <<>>
  /\ Idle

NextWrappers ==
  \/ CallEndpoint("c1")
  \/ WrapperStart("c1")
  \/ WrapperOriginalDone("c1")
  \/ DefaultHandlerStart("c1")
  \/ DefaultHandlerFetchDone("c1")
  \/ DefaultHandlerJsonDone("c1")
  \/ MergedBeforeRequestStep("c1")
  \/ MergedAfterResponseStep("c1")
  \/ MergedOnErrorStep("c1")
  \/ FetchSettles("c1")
  \/ EnhancedFetchBeforeRequestDone("c1")
  \/ EnhancedFetchFetchDone("c1")
  \/ EnhancedFetchAfterResponseDone("c1")
  \/ EnhancedFetchOnErrorDone("c1")

SpecWrappers == InitWrappers /\ [][NextWrappers]_vars

\* The steps that continue a call in progress: every one is the settling of
\* something the call awaits (a hook, the transport, a decode step, a
\* wrapper's original) followed by the code that runs up to the next await.
ContinueWrappers ==
  \/ WrapperStart("c1")
  \/ WrapperOriginalDone("c1")
  \/ DefaultHandlerStart("c1")
  \/ DefaultHandlerFetchDone("c1")
  \/ DefaultHandlerJsonDone("c1")
  \/ MergedBeforeRequestStep("c1")
  \/ MergedAfterResponseStep("c1")
  \/ MergedOnErrorStep("c1")
  \/ FetchSettles("c1")
  \/ EnhancedFetchBeforeRequestDone("c1")
  \/ EnhancedFetchFetchDone("c1")
  \/ EnhancedFetchAfterResponseDone("c1")
  \/ EnhancedFetchOnErrorDone("c1")

\* The clients of the calls followed to their end: one endpoint without a
\* handler of its own, the three hooks at the global level, every plugin
\* with a wrapper.
InitFair ==
  /\ \E plugins \in PluginLists :
       /\ \A i \in 1..Len(plugins) :
            plugins[i].hooks = Undefined /\ plugins[i].handlerWrapper
       /\ client = Built(<<Entry("call", EndpointConfig(Undefined, "undefined"))>>,
                         [baseUrl |-> "https://api", hooks |-> AllKinds("global"),
                          plugins |-> plugins])
  /\ hooksList = <<>>
  /\ Idle

\* Whatever a call awaits settles and the continuation then runs: a promise
\* that settles has its reactions run by the job queue, and hooks, wrappers,
\* decode steps and the transport are taken to settle.  Whether a call is
\* made at all is left open.
SpecFair == InitFair /\ [][NextWrappers]_vars /\ WF_vars(ContinueWrappers)

\* Two calls in flight on one client: an endpoint at the top and one in a
\* group, neither with a handler of its own, hooks at the global level or
\* not and at the group.  Each step is the code one call runs between two
\* awaits; the steps of the two calls interleave in every order.
InitTwoCalls ==
  /\ \E globalHooks \in HookChoices("global") :
       client = Built(<<Entry("call", EndpointConfig(Undefined, "undefined")),
                        Entry("other",
                              [hooks |-> AllKinds("other"),
                               endpoints |->
                                 <<Entry("call",
                                         EndpointConfig(Undefined, "undefined"))>>])>>,
                      [baseUrl |-> "https://api", hooks |-> globalHooks,
                       plugins |-> <<>>])
  /\ hooksList = <<>>
  /\ Idle

NextTwoCalls ==
  \E c \in Calls :
    \/ CallEndpoint(c)
    \/ DefaultHandlerStart(c)
    \/ DefaultHandlerFetchDone(c)
    \/ DefaultHandlerJsonDone(c)
    \/ MergedBeforeRequestStep(c)
    \/ MergedAfterResponseStep(c)
    \/ MergedOnErrorStep(c)
    \/ FetchSettles(c)
    \/ EnhancedFetchBeforeRequestDone(c)
    \/ EnhancedFetchFetchDone(c)
    \/ EnhancedFetchAfterResponseDone(c)
    \/ EnhancedFetchOnErrorDone(c)

SpecTwoCalls == InitTwoCalls /\ [][NextTwoCalls]_vars

\* The calls of the clients of InitTwoCalls one at a time, with post-call
\* hooks that may replace a response that is not ok by one that is.
NextRecover ==
  \/ CallEndpoint("c1")
  \/ DefaultHandlerStart("c1")
  \/ DefaultHandlerFetchDone("c1")
  \/ DefaultHandlerJsonDone("c1")
  \/ MergedBeforeRequestStep("c1")
  \/ MergedAfterResponseStep("c1")
  \/ MergedAfterResponseRecovers("c1")
  \/ MergedOnErrorStep("c1")
  \/ FetchSettles("c1")
  \/ EnhancedFetchBeforeRequestDone("c1")
  \/ EnhancedFetchFetchDone("c1")
  \/ EnhancedFetchAfterResponseDone("c1")
  \/ EnhancedFetchOnErrorDone("c1")

SpecRecover == InitTwoCalls /\ [][NextRecover]_vars

----------------------------------------------------------------------------
(* The request of the default executor.  In the calls above a request is a  *)
(* token; here the url and options defaultHandler builds (client.ts:24-39)  *)
(* are computed from method, path, input and configuration.  A string that  *)
(* is cut or joined is the sequence of its characters.                      *)

MaxLen == 3   \* characters of a base address or of a path

Chars == {"a", "/"}

RECURSIVE StringsUpTo(_)
StringsUpTo(n) ==
  IF n = 0 THEN {<<>>}
  ELSE StringsUpTo(n - 1)
       \cup {Append(str, ch) : str \in {x \in StringsUpTo(n - 1) : Len(x) = n - 1},
                               ch \in Chars}

endsWith(str, ch) == Len(str) > 0 /\ str[Len(str)] = ch
startsWith(str, ch) == Len(str) > 0 /\ str[1] = ch

\* a variant of buildUrl that removes every trailing slash of the base
RECURSIVE buildUrl_StripAll(_, _)
buildUrl_StripAll(path, baseUrl) ==
  IF endsWith(baseUrl, "/")
  THEN buildUrl_StripAll(path, SubSeq(baseUrl, 1, Len(baseUrl) - 1))
  ELSE baseUrl \o (IF startsWith(path, "/") THEN path ELSE <<"/">> \o path)

\* utils.ts:6-10
buildUrl(path, baseUrl) ==
  LET normalizedBase == IF endsWith(baseUrl, "/")
                        THEN SubSeq(baseUrl, 1, Len(baseUrl) - 1) ELSE baseUrl
      normalizedPath == IF startsWith(path, "/") THEN path ELSE <<"/">> \o path
  IN  normalizedBase \o normalizedPath

HttpMethods == {"GET", "POST", "PUT", "PATCH", "DELETE"}

\* JS values given as input to an endpoint
JsUndefined == [t |-> "undefined"]
JsNull == [t |-> "null"]
JsBoolean(v) == [t |-> "boolean", bool |-> v]
JsNumber(v) == [t |-> "number", num |-> v]
JsString(v) == [t |-> "string", str |-> v]
JsObject(name) == [t |-> "object", name |-> JsString(name)]

Inputs ==
  {JsUndefined, JsNull, JsBoolean(FALSE), JsNumber(0), JsNumber(7),
   JsString(""), JsString("Bob"), JsObject("Bob")}

\* JSON.stringify(value), for the values of Inputs other than undefined
RECURSIVE JSONStringify(_)
JSONStringify(value) ==
  CASE value.t = "null"    -> "null"
    [] value.t = "boolean" -> IF value.bool THEN "true" ELSE "false"
    [] value.t = "number"  -> ToString(value.num)
    [] value.t = "string"  -> "\"" \o value.str \o "\""
    [] value.t = "object"  -> "{\"name\":" \o JSONStringify(value.name) \o "}"

\* JS truthiness
Truthy(value) ==
  ~(\/ value.t \in {"undefined", "null"}
    \/ value = JsBoolean(FALSE)
    \/ value = JsNumber(0)
    \/ value = JsString(""))

\* The forms of HeadersInit (types.ts:100) config.defaultHeaders may have: a
\* plain object of header names and values, a Headers instance, an array of
\* [name, value] pairs; absent, it is undefined
HeadersRecord(props) == [t |-> "record", props |-> props]
HeadersInstance(entries) == [t |-> "Headers", entries |-> entries]
HeadersPairs(items) == [t |-> "array", items |-> items]

JsArray(items) == [t |-> "array", items |-> items]

\* the own enumerable properties `...value` copies into an object literal:
\* the properties of a plain object, the elements of an array under their
\* indices "0", "1", ..., and none of undefined or of a Headers instance,
\* which keeps its entries in an internal list
Spread(value) ==
  CASE value.t = "record" -> value.props
    [] value.t = "array"  ->
         [k \in {ToString(i - 1) : i \in 1..Len(value.items)} |->
            LET i == CHOOSE n \in 1..Len(value.items) : ToString(n - 1) = k
            IN  JsArray(<<JsString(value.items[i][1]),
                          JsString(value.items[i][2])>>)]
    [] OTHER -> EmptyObject

\* a variant of defaultOptions that tests `input` instead of
\* `input !== undefined`
defaultOptions_Truthy(method, input, config) ==
  LET options == [method |-> method,
                  headers |-> ObjectAssign("Content-Type" :> JsString("application/json"),
                                           Spread(config.defaultHeaders))]
  IN  IF method # "GET" /\ method # "DELETE" /\ Truthy(input)
      THEN ObjectAssign(options, "body" :> JSONStringify(input))
      ELSE options

\* client.ts:26-36
defaultOptions(method, input, config) ==
  LET options == [method |-> method,
                  headers |-> ObjectAssign("Content-Type" :> JsString("application/json"),
                                           Spread(config.defaultHeaders))]
  IN  IF method # "GET" /\ method # "DELETE" /\ input # JsUndefined
      THEN ObjectAssign(options, "body" :> JSONStringify(input))
      ELSE options

\* config.defaultHeaders: absent, or a HeadersInit of one of its three forms,
\* with and without a header named Content-Type in either spelling
DefaultHeaders ==
  {JsUndefined,
   HeadersRecord(EmptyObject),
   HeadersRecord("X-Api-Key" :> JsString("k")),
   HeadersRecord("Content-Type" :> JsString("text/plain")),
   HeadersRecord(("X-Api-Key" :> JsString("k"))
                 @@ ("Content-Type" :> JsString("text/plain"))),
   HeadersRecord("content-type" :> JsString("text/plain")),
   HeadersInstance(<<<<"x-api-key", "k">>>>),
   HeadersInstance(<<<<"content-type", "text/plain">>, <<"x-api-key", "k">>>>),
   HeadersPairs(<<<<"X-Api-Key", "k">>>>),
   HeadersPairs(<<<<"Content-Type", "text/plain">>, <<"X-Api-Key", "k">>>>)}

\* defaultHandler(method, path, input, hooks, config, fetchInstance) is about
\* to be called
InitRequest ==
  /\ client = NoClient
  /\ hooksList = <<>>
  /\ \E method \in HttpMethods, path \in StringsUpTo(MaxLen),
        baseUrl \in StringsUpTo(MaxLen), input \in Inputs,
        defaultHeaders \in DefaultHeaders :
       call = [c \in Calls |->
                IF c = "c1"
                THEN [fn |-> "defaultHandler", method |-> method,
                      path |-> path, input |-> input,
                      config |-> [baseUrl |-> baseUrl,
                                  defaultHeaders |-> defaultHeaders]]
                ELSE NoCall]
  /\ stack = [c \in Calls |-> <<>>]
  /\ ret = [c \in Calls |-> NoRet]
  /\ log = [c \in Calls |-> <<>>]

\* client.ts:24-39: defaultHandler runs up to the call of its enhanced
\* fetch with the url and options it built
DefaultHandlerRequest(c) ==
  /\ call[c] # NoCall
  /\ call[c].fn = "defaultHandler"
  /\ log[c] = <<>>
  /\ LET url == buildUrl(call[c].path, call[c].config.baseUrl)
         options == defaultOptions(call[c].method, call[c].input, call[c].config)
     IN  log' = Logged(c, [op |-> "enhancedFetch", src |-> "invoke",
                           arg |-> Req(url, options), out |-> "invoke",
                           layer |-> 1])
  /\ UNCHANGED <<client, hooksList, call, stack, ret>>

NextRequest == DefaultHandlerRequest("c1")

SpecRequest == InitRequest /\ [][NextRequest]_vars

----------------------------------------------------------------------------
(* Building a client: createApiClient applied to configurations whose       *)
(* plugins were made by createPlugin(name, factory), plugin.ts:114-129, and *)
(* may carry a methods map, types.ts:76.                                    *)

MethodNames == {"get", "set"}

\* a methods map of the plugin at position i: each method is known by the
\* position of the plugin that brought it and its name
Methods(i, names) == [m \in names |-> <<i, m>>]

MethodChoices(i) ==
  {Undefined} \cup {Methods(i, names) : names \in SUBSET MethodNames}

\* plugin lists whose names need not differ
NamedPluginLists ==
  UNION {{pl \in [1..n -> [name : {PluginName(i) : i \in 1..MaxPlugins},
                           hooks : {Undefined} \cup {AllKinds(PluginName(i)) : i \in 1..n},
                           handlerWrapper : {FALSE},
                           methods : UNION {MethodChoices(i) : i \in 1..n}]] :
            \A i \in 1..n : /\ pl[i].hooks \in HookChoices(PluginName(i))
                            /\ pl[i].methods \in MethodChoices(i)} :
         n \in 0..MaxPlugins}

\* createApiClient(endpoints, config) is about to be called
InitBuild ==
  /\ client = NoClient
  /\ hooksList = <<>>
  /\ \E plugins \in NamedPluginLists :
       call = [c \in Calls |->
                IF c = "c1"
                THEN [fn |-> "createApiClient",
                      endpoints |->
                        Definitions([d \in 1..MaxDepth |-> Undefined],
                                    EndpointConfig(Undefined, "undefined")),
                      config |-> [baseUrl |-> "https://api",
                                  hooks |-> AllKinds("global"),
                                  plugins |-> plugins]]
                ELSE NoCall]
  /\ stack = [c \in Calls |-> <<>>]
  /\ ret = [c \in Calls |-> NoRet]
  /\ log = [c \in Calls |-> <<>>]

\* the endpoints processEndpoints reaches (client.ts:101-132), in the order
\* it reaches them: each by the chain of names that leads to it. For each
\* of them it calls mergeHooks, client.ts:138
RECURSIVE EndpointsReached(_, _)
EndpointsReached(definitions, prefix) ==
  IF definitions = <<>> THEN <<>>
  ELSE
    LET name       == Head(definitions).name
        definition == Head(definitions).def
        nestedEndpoints ==
          IF "endpoints" \in DOMAIN definition
          THEN EndpointsReached(definition.endpoints, Append(prefix, name))
          ELSE <<>>
        nestedGroups ==
          IF "groups" \in DOMAIN definition
          THEN EndpointsReached(definition.groups, Append(prefix, name))
          ELSE <<>>
    IN  (IF isGroupConfig(definition)
         THEN nestedEndpoints \o nestedGroups
         ELSE <<Append(prefix, name)>>)
        \o EndpointsReached(Tail(definitions), prefix)

\* client.ts:268-282 runs from its first line to its return: the only
\* functions it invokes on the way are its own, mergeHooks once for each
\* endpoint among them
CreateApiClient(c) ==
  /\ call[c] # NoCall
  /\ call[c].fn = "createApiClient"
  /\ ret[c] = NoRet
  /\ client' = Built(call[c].endpoints, call[c].config)
  /\ ret' = [ret EXCEPT ![c] =
               Return(createApiClient(call[c].endpoints, call[c].config))]
  /\ log' = [log EXCEPT ![c] =
               SeqMap(LAMBDA path : HookEvent(c, "mergeHooks", "processEndpoints",
                                              path, "return"),
                      EndpointsReached(call[c].endpoints, <<>>))]
  /\ UNCHANGED <<hooksList, call, stack>>

NextBuild == CreateApiClient("c1")

SpecBuild == InitBuild /\ [][NextBuild]_vars

\* The shapes of a definition node: hooks or none, an endpoints key or none
\* (empty or with an endpoint), a groups key or none (empty or with a group),
\* with or without the method and path of an endpoint.  An optional key that
\* is absent is absent from the record; hooks is kept, undefined when absent.
NodeShapes ==
  {[hooks |-> hooks] @@ endpoints @@ groups @@ request :
     hooks \in HookChoices("node"),
     endpoints \in {EmptyObject, "endpoints" :> <<>>,
                    "endpoints" :>
                      <<Entry("call", EndpointConfig(Undefined, "undefined"))>>},
     groups \in {EmptyObject, "groups" :> <<>>,
                 "groups" :>
                   <<Entry("inner",
                           [hooks |-> Undefined,
                            endpoints |->
                              <<Entry("call",
                                      EndpointConfig(Undefined, "undefined"))>>])>>},
     request \in {EmptyObject,
                  [method |-> "GET", path |-> "/path", handler |-> "undefined"]}}

\* createApiClient is about to be called with one definition node of any
\* shape, beside an endpoint
InitDispatch ==
  /\ client = NoClient
  /\ hooksList = <<>>
  /\ \E node \in NodeShapes, plugins \in PluginLists :
       /\ \A i \in 1..Len(plugins) : ~plugins[i].handlerWrapper
       /\ call = [c \in Calls |->
                   IF c = "c1"
                   THEN [fn |-> "createApiClient",
                         endpoints |->
                           <<Entry("node", node),
                             Entry("call", EndpointConfig(Undefined, "undefined"))>>,
                         config |-> [baseUrl |-> "https://api",
                                     hooks |-> AllKinds("global"),
                                     plugins |-> plugins]]
                   ELSE NoCall]
  /\ stack = [c \in Calls |-> <<>>]
  /\ ret = [c \in Calls |-> NoRet]
  /\ log = [c \in Calls |-> <<>>]

SpecDispatch == InitDispatch /\ [][NextBuild]_vars

\* The configurations createApiClient is called with in the life of one
\* client, each with one endpoint that the default handler executes: global
\* hooks of every kind, no plugin and a path function; no hooks, no plugin
\* and a literal path; a plugin with a handlerWrapper followed by a plugin
\* without one, no hooks and a path function.
LifecycleConfigs ==
  {[plugins |-> <<>>, hooks |-> AllKinds("global"),
    endpoint |-> WithPathFunction(EndpointConfig(Undefined, "undefined"))],
   [plugins |-> <<>>, hooks |-> Undefined,
    endpoint |-> EndpointConfig(Undefined, "undefined")],
   [plugins |-> <<[name |-> PluginName(1), hooks |-> Undefined,
                   handlerWrapper |-> TRUE],
                  [name |-> PluginName(2), hooks |-> Undefined,
                   handlerWrapper |-> FALSE]>>,
    hooks |-> Undefined,
    endpoint |-> WithPathFunction(EndpointConfig(Undefined, "undefined"))]}

\* The life of one client: createApiClient is about to be called with one
\* of the configurations above; once it has returned, its endpoint function
\* may be called, and called again at any time, whether the other call is
\* in flight or has settled. Each call runs turn by turn to its end,
\* interleaved with the other.
InitLifecycle ==
  /\ client = NoClient
  /\ hooksList = <<>>
  /\ \E cfg \in LifecycleConfigs :
       call = [c \in Calls \cup {"build"} |->
               IF c = "build"
               THEN [fn |-> "createApiClient",
                     endpoints |-> <<Entry("call", cfg.endpoint)>>,
                     config |-> [baseUrl |-> "https://api",
                                 hooks |-> cfg.hooks,
                                 plugins |-> cfg.plugins]]
               ELSE NoCall]
  /\ stack = [c \in Calls \cup {"build"} |-> <<>>]
  /\ ret = [c \in Calls \cup {"build"} |-> NoRet]
  /\ log = [c \in Calls \cup {"build"} |-> <<>>]

NextLifecycle ==
  \/ CreateApiClient("build")
  \/ \E c \in Calls :
       \/ CallEndpoint(c)
       \/ WrapperStart(c)
       \/ WrapperOriginalDone(c)
       \/ DefaultHandlerStart(c)
       \/ DefaultHandlerFetchDone(c)
       \/ DefaultHandlerJsonDone(c)
       \/ MergedBeforeRequestStep(c)
       \/ MergedAfterResponseStep(c)
       \/ MergedOnErrorStep(c)
       \/ FetchSettles(c)
       \/ EnhancedFetchBeforeRequestDone(c)
       \/ EnhancedFetchFetchDone(c)
       \/ EnhancedFetchAfterResponseDone(c)
       \/ EnhancedFetchOnErrorDone(c)

SpecLifecycle == InitLifecycle /\ [][NextLifecycle]_vars

----------------------------------------------------------------------------
(* Properties of mergeHooks and createEnhancedFetch used directly           *)

OfOp(c, op) == SelectSeq(log[c], LAMBDA e : e.op = op)

\* ids of the sources at positions i..n of hooksList that define kind, by
\* position, lowest first
RECURSIVE DefiningUp(_, _)
DefiningUp(i, kind) ==
  IF i > Len(hooksList) THEN <<>>
  ELSE (IF hooksList[i] # Undefined /\ kind \in hooksList[i].kinds
        THEN <<HookIds[i]>> ELSE <<>>) \o DefiningUp(i + 1, kind)

\* the same for positions i..1, highest first
RECURSIVE DefiningDown(_, _)
DefiningDown(i, kind) ==
  IF i < 1 THEN <<>>
  ELSE (IF hooksList[i] # Undefined /\ kind \in hooksList[i].kinds
        THEN <<HookIds[i]>> ELSE <<>>) \o DefiningDown(i - 1, kind)

\* C3: the merged pre-call hook invokes the pre-call hooks of the defining
\* sources in the given order, the first with the caller's (url, init) and
\* each later one with what its predecessor returned; sources that are
\* undefined or lack the hook are passed over; on return every defining
\* source has run and the value returned is the last hook's result.
C3_PreCallForwardChain ==
  call["c1"].fn = "merged.beforeRequest" =>
    LET evs == log["c1"]
        D   == DefiningUp(1, "beforeRequest")
    IN  /\ Len(evs) <= Len(D)
        /\ \A k \in 1..Len(evs) :
             /\ evs[k].op = "beforeRequest"
             /\ evs[k].src = D[k]
             /\ evs[k].arg = IF k = 1 THEN call["c1"].req
                             ELSE ApplyBeforeRequest(evs[k-1].src, evs[k-1].arg)
        /\ (Settled("c1") /\ ret["c1"].status = "return") =>
             /\ Len(evs) = Len(D)
             /\ ret["c1"].value =
                  ApplyBeforeRequest(evs[Len(evs)].src, evs[Len(evs)].arg)

\* a merged pre-call hook returned after two hooks ran around a source that
\* was passed over
C3_Witness ==
  /\ call["c1"].fn = "merged.beforeRequest"
  /\ Settled("c1") /\ ret["c1"].status = "return"
  /\ Len(hooksList) = 3
  /\ Defines(hooksList[1], "beforeRequest")
  /\ ~Defines(hooksList[2], "beforeRequest")
  /\ Defines(hooksList[3], "beforeRequest")
  /\ ret["c1"].value.url = <<"url", "h1", "h3">>

\* C4: the merged post-call hook invokes the post-call hooks of the
\* defining sources in the reverse of the given order, the first with the
\* caller's response and each later one with the response its predecessor
\* returned, all of them with the caller's (url, init).
C4_PostCallReverseChain ==
  call["c1"].fn = "merged.afterResponse" =>
    LET evs == log["c1"]
        D   == DefiningDown(Len(hooksList), "afterResponse")
    IN  /\ Len(evs) <= Len(D)
        /\ \A k \in 1..Len(evs) :
             /\ evs[k].op = "afterResponse"
             /\ evs[k].src = D[k]
             /\ evs[k].arg.req = call["c1"].req
             /\ evs[k].arg.response =
                  IF k = 1 THEN call["c1"].response
                  ELSE ApplyAfterResponse(evs[k-1].src, evs[k-1].arg.response)
        /\ (Settled("c1") /\ ret["c1"].status = "return") =>
             /\ Len(evs) = Len(D)
             /\ ret["c1"].value =
                  ApplyAfterResponse(evs[Len(evs)].src,
                                     evs[Len(evs)].arg.response)

\* a merged post-call hook returned after the hooks of three sources ran
C4_Witness ==
  /\ call["c1"].fn = "merged.afterResponse"
  /\ Settled("c1") /\ ret["c1"].status = "return"
  /\ ret["c1"].value.via = <<"h3", "h2", "h1">>

\* C5: when the merged on-error hook has settled, the on-error hook of
\* every defining source has been invoked exactly once, in the given
\* order, whether or not one of them failed.
C5_OnErrorInvokesAll ==
  (call["c1"].fn = "merged.onError" /\ Settled("c1")) =>
    LET evs == log["c1"]
        D   == DefiningUp(1, "onError")
    IN  /\ Len(evs) = Len(D)
        /\ \A k \in 1..Len(evs) : evs[k].op = "onError" /\ evs[k].src = D[k]

FetchRejected(c) == \E k \in 1..Len(log[c]) :
                       log[c][k].op = "fetch" /\ log[c][k].out = "reject"

\* C6: an enhanced call whose transport rejected with e, made with an
\* on-error hook, rejects with e whatever the on-error hook did.
C6_RethrowsOriginal ==
  (call["c1"].fn = "enhancedFetch" /\ Settled("c1") /\ FetchRejected("c1")
     /\ Has(call["c1"].hooks, "onError"))
  => ret["c1"] = Throw(FetchError)

\* C7: an enhanced call whose pre-call hook failed, made with an on-error
\* hook, has invoked the on-error hook with that error when it settles.
C7_OnErrorAfterPreCallFailure ==
  (call["c1"].fn = "enhancedFetch" /\ Settled("c1")
     /\ Has(call["c1"].hooks, "onError"))
  => \A k \in 1..Len(log["c1"]) :
       (log["c1"][k].op = "beforeRequest" /\ log["c1"][k].out = "throw") =>
          \E j \in (k+1)..Len(log["c1"]) :
             /\ log["c1"][j].op = "onError"
             /\ log["c1"][j].arg = Err("beforeRequest", log["c1"][k].src)

\* C8: when the transport rejected with e and an on-error hook exists, the
\* enhanced call settles only after the on-error hook was invoked, once and
\* with e, and ran to its end (all its hooks returned, or the last one
\* invoked failed).
C8_OnErrorOnceBeforeReject ==
  (call["c1"].fn = "enhancedFetch" /\ FetchRejected("c1")
     /\ Has(call["c1"].hooks, "onError")
     /\ \E k \in 1..Len(log["c1"]) : log["c1"][k].op = "enhancedFetch")
  => LET evs  == OfOp("c1", "onError")
         last == log["c1"][Len(log["c1"])]
     IN  /\ Len(evs) >= 1
         /\ \A k \in 1..Len(evs) :
              /\ evs[k].arg = FetchError
              /\ evs[k].src = call["c1"].hooks.onError[k]
              /\ k < Len(evs) => evs[k].out = "return"
         /\ \/ evs[Len(evs)].out = "throw"
            \/ Len(evs) = Len(call["c1"].hooks.onError)
         /\ last.op = "enhancedFetch" /\ last.out = "throw"
         /\ ret["c1"].status = "throw"

\* the transport rejected, two on-error hooks ran and the call has rejected
C8_Witness ==
  /\ call["c1"].fn = "enhancedFetch" /\ Settled("c1") /\ FetchRejected("c1")
  /\ Len(OfOp("c1", "onError")) = 2
  /\ ret["c1"] = Throw(FetchError)

\* C9: one call of an enhanced fetch function invokes the injected
\* transport at most once.
C9_TransportAtMostOnce ==
  call["c1"].fn = "enhancedFetch" => Len(OfOp("c1", "fetch")) <= 1

\* an enhanced call has rejected after its post-call hook failed and its
\* on-error hook ran, with the transport invoked once
C9_Witness ==
  /\ call["c1"].fn = "enhancedFetch" /\ Settled("c1")
  /\ Len(OfOp("c1", "fetch")) = 1
  /\ \E k \in 1..Len(log["c1"]) :
       log["c1"][k].op = "afterResponse" /\ log["c1"][k].out = "throw"
  /\ Len(OfOp("c1", "onError")) >= 1
  /\ ret["c1"].status = "throw"

\* C20: in a call of an enhanced transport whose hooks have a pre-call hook,
\* the transport is invoked right after the last pre-call hook returned,
\* with the url and the init that hook returned, both different from the
\* caller's.
C20_TransportGetsHookResult ==
  (call["c1"] # NoCall /\ call["c1"].fn = "enhancedFetch"
     /\ Has(call["c1"].hooks, "beforeRequest")) =>
    \A j \in 1..Len(log["c1"]) :
      log["c1"][j].op = "fetch" =>
        /\ j > 1
        /\ log["c1"][j-1].op = "beforeRequest"
        /\ log["c1"][j-1].out = "return"
        /\ log["c1"][j].arg =
             ApplyBeforeRequest(log["c1"][j-1].src, log["c1"][j-1].arg)
        /\ log["c1"][j].arg.url # call["c1"].req.url
        /\ log["c1"][j].arg.init # call["c1"].req.init

\* the transport was invoked after the pre-call hooks of MaxSources sources
\* rewrote the url and the init
C20_Witness ==
  /\ call["c1"] # NoCall /\ call["c1"].fn = "enhancedFetch"
  /\ Has(call["c1"].hooks, "beforeRequest")
  /\ Len(call["c1"].hooks.beforeRequest) = MaxSources
  /\ Len(OfOp("c1", "fetch")) = 1
  /\ OfOp("c1", "fetch")[1].arg.url = Url0 \o call["c1"].hooks.beforeRequest
  /\ OfOp("c1", "fetch")[1].arg.init = Init0 \o call["c1"].hooks.beforeRequest

\* The post-call events of call c and the responses its transport returned
\* (the transport's response is what the first post-call hook of the pass
\* was given; the model's transport returns a response with an empty via).
EnhancedResolved(c) ==
  /\ call[c] # NoCall /\ call[c].fn = "enhancedFetch"
  /\ stack[c] = <<>> /\ ret[c].status = "return"

\* C21: an enhanced transport call with a post-call hook that succeeds has
\* invoked the post-call hook exactly once (each function of the merged
\* hook once, in its order), the first function was given the response the
\* transport returned, every function was given the url and init that were
\* passed to the transport, and the call resolves with the result of the
\* hook (the result of its last function), not with the transport's response.
C21_PostCallOnceWithTransportArgs ==
  (EnhancedResolved("c1") /\ Has(call["c1"].hooks, "afterResponse")) =>
    LET post == OfOp("c1", "afterResponse")
        sent == OfOp("c1", "fetch")
        chain == call["c1"].hooks.afterResponse
    IN  /\ Len(sent) = 1
        /\ SeqMap(LAMBDA e : e.src, post) = chain
        /\ post[1].arg.response.via = <<>>
        /\ post[1].arg.response.ok = (sent[1].out = "ok")
        /\ \A i \in 1..Len(post) :
             /\ post[i].arg.req = sent[1].arg
             /\ post[i].out = "return"
             /\ i > 1 => post[i].arg.response
                            = ApplyAfterResponse(post[i-1].src,
                                                 post[i-1].arg.response)
        /\ ret["c1"].value
             = ApplyAfterResponse(post[Len(post)].src,
                                  post[Len(post)].arg.response)
        /\ ret["c1"].value.via = chain
        /\ ret["c1"].value # post[1].arg.response

C21_Witness ==
  /\ EnhancedResolved("c1")
  /\ Has(call["c1"].hooks, "afterResponse")
  /\ Has(call["c1"].hooks, "beforeRequest")
  /\ Len(call["c1"].hooks.afterResponse) >= 2
  /\ Len(OfOp("c1", "afterResponse")) = Len(call["c1"].hooks.afterResponse)
  /\ OfOp("c1", "afterResponse")[1].arg.req # Req0
  /\ ret["c1"].value.via = call["c1"].hooks.afterResponse

\* the post-call events of call c that failed
PostCallThrows(c) ==
  SelectSeq(log[c], LAMBDA e : e.op = "afterResponse" /\ e.out = "throw")

\* C35: when the post-call hook of an enhanced call throws after the
\* transport resolved, the on-error hook, if there is one, is invoked with
\* the error of the post-call hook, the call rejects with that error, and
\* the transport was invoked once.
C35_PostCallErrorToOnError ==
  (/\ call["c1"] # NoCall /\ call["c1"].fn = "enhancedFetch"
   /\ stack["c1"] = <<>>
   /\ PostCallThrows("c1") # <<>>) =>
    LET error == Err("afterResponse", PostCallThrows("c1")[1].src)
        evs   == OfOp("c1", "onError")
    IN  /\ Len(OfOp("c1", "fetch")) = 1
        /\ OfOp("c1", "fetch")[1].out # "reject"
        /\ Has(call["c1"].hooks, "onError") =>
             /\ evs # <<>>
             /\ \A k \in 1..Len(evs) : evs[k].arg = error
        /\ ~Has(call["c1"].hooks, "onError") => evs = <<>>
        /\ ret["c1"] = Throw(error)

\* some source of hooksList is a Hooks object with a function of this kind
SomeSourceDefines(kind) ==
  \E i \in 1..Len(hooksList) :
    hooksList[i] # Undefined /\ kind \in hooksList[i].kinds

\* C22: the merged hook set an enhanced function was created with has a
\* pre-call (post-call, on-error) function exactly when some source that is
\* not undefined defines one; merged from no sources, or from undefined
\* sources only, it is the empty hook set, and a kind it lacks is never run.
C22_MergedKindsIffDefined ==
  (call["c1"] # NoCall /\ call["c1"].fn = "enhancedFetch") =>
    /\ \A k \in Kinds : Has(call["c1"].hooks, k) <=> SomeSourceDefines(k)
    /\ (\A i \in 1..Len(hooksList) : hooksList[i] = Undefined)
         => call["c1"].hooks = EmptyObject
    /\ \A k \in Kinds : ~SomeSourceDefines(k) => OfOp("c1", k) = <<>>

C22_Witness ==
  /\ EnhancedResolved("c1")
  /\ Len(hooksList) = MaxSources
  /\ \E i \in 1..Len(hooksList) : hooksList[i] = Undefined
  /\ \E i \in 1..Len(hooksList) :
       hooksList[i] # Undefined /\ hooksList[i].kinds = {}
  /\ DOMAIN call["c1"].hooks = {"afterResponse"}
  /\ OfOp("c1", "afterResponse") # <<>>

----------------------------------------------------------------------------
(* Properties of endpoint calls                                             *)

IsEndpointCall(c) == call[c].fn = "endpoint"
DefaultExecuted(c) == IsEndpointCall(c) /\ call[c].endpoint.handler = "undefined"
CustomHandled(c) == IsEndpointCall(c) /\ call[c].endpoint.handler # "undefined"

\* the definition stored under name in a list of entries
FindDef(definitions, name) ==
  CHOOSE i \in 1..Len(definitions) : definitions[i].name = name
HasEntry(definitions, name) ==
  \E i \in 1..Len(definitions) : definitions[i].name = name

\* the Hooks objects of the groups passed on the way down path, outermost
\* first, followed by the Hooks object of the endpoint path ends at
RECURSIVE HooksAlong(_, _)
HooksAlong(definitions, path) ==
  LET definition == definitions[FindDef(definitions, path[1])].def
  IN  IF Len(path) = 1 THEN <<definition.hooks>>
      ELSE <<definition.hooks>> \o
           HooksAlong(IF "groups" \in DOMAIN definition
                         /\ HasEntry(definition.groups, path[2])
                      THEN definition.groups ELSE definition.endpoints,
                      Tail(path))

\* ids of the hooks of one kind that apply to the endpoint at path, read
\* off the client's configuration: plugins in registration order, global,
\* groups from the outermost to the innermost, endpoint
ConfiguredOrder(path, kind) ==
  LET all == [i \in 1..Len(client.config.plugins) |-> client.config.plugins[i].hooks]
             \o <<client.config.hooks>>
             \o HooksAlong(client.endpoints, path)
      RECURSIVE Ids(_)
      Ids(i) == IF i > Len(all) THEN <<>>
                ELSE (IF all[i] # Undefined /\ kind \in all[i].kinds
                      THEN <<all[i].id>> ELSE <<>>) \o Ids(i + 1)
  IN  Ids(1)

Times(c, op, id) ==
  Len(SelectSeq(log[c], LAMBDA e : e.op = op /\ e.src = id))

Ran(c, op) == Len(OfOp(c, op))

\* every handler wrapper entered in call c invoked its original, and none
\* invoked it again
WrappersPassThrough(c) ==
  \A k \in 1..Len(log[c]) :
     log[c][k].op = "wrapper" => log[c][k].out = "invoke"

\* C1: when an endpoint call has resolved (each handler wrapper, if any,
\* having invoked the handler it wraps once), every pre-call and post-call
\* hook of the endpoint's merged hook set has been invoked exactly twice if
\* the endpoint has no custom handler, and exactly once if it has a custom
\* handler that called the enhanced transport it was given exactly once.
C1_HooksTwiceOrOnce ==
  (IsEndpointCall("c1") /\ Settled("c1") /\ ret["c1"].status = "return"
     /\ WrappersPassThrough("c1")) =>
    LET pre  == ConfiguredOrder(call["c1"].path, "beforeRequest")
        post == ConfiguredOrder(call["c1"].path, "afterResponse")
    IN  /\ (DefaultExecuted("c1") /\ Ran("c1", "defaultHandler") = 1) =>
             /\ \A k \in 1..Len(pre) : Times("c1", "beforeRequest", pre[k]) = 2
             /\ \A k \in 1..Len(post) : Times("c1", "afterResponse", post[k]) = 2
        /\ (CustomHandled("c1") /\ Ran("c1", "handler") = 1
              /\ ret["c1"].value = HandlerResult(1)) =>
             /\ \A k \in 1..Len(pre) : Times("c1", "beforeRequest", pre[k]) = 1
             /\ \A k \in 1..Len(post) : Times("c1", "afterResponse", post[k]) = 1

\* a default-executed call of the innermost endpoint has resolved with
\* hooks at every level of a client with two plugins
C1_Witness ==
  /\ DefaultExecuted("c1") /\ Settled("c1") /\ ret["c1"].status = "return"
  /\ Len(call["c1"].path) = MaxDepth + 1
  /\ Len(ConfiguredOrder(call["c1"].path, "beforeRequest")) = MaxPlugins + MaxDepth + 2
  /\ Ran("c1", "beforeRequest") = 2 * (MaxPlugins + MaxDepth + 2)
  /\ Ran("c1", "afterResponse") = 2 * (MaxPlugins + MaxDepth + 2)

\* the ids of the events of one kind logged at positions i+1..j-1
SrcsBetween(c, op, i, j) ==
  LET RECURSIVE S(_)
      S(k) == IF k >= j THEN <<>>
              ELSE (IF log[c][k].op = op THEN <<log[c][k].src>> ELSE <<>>)
                   \o S(k + 1)
  IN  S(i + 1)

\* the last position before j at which a base handler started or the
\* transport was invoked
LastStart(c, j) ==
  LET starts == {i \in 1..(j - 1) :
                   log[c][i].op \in {"defaultHandler", "handler", "fetch"}}
  IN  IF starts = {} THEN 0
      ELSE CHOOSE i \in starts : \A k \in starts : k <= i

\* C2: in an endpoint call the pre-call hooks run in the order plugins (as
\* registered), global, groups from the outermost to the innermost,
\* endpoint: a hook that returned is followed by the next one of that
\* order, the pass starts over after its last hook or a failure, and by the
\* time the transport is invoked the whole order has been passed twice in a
\* row since the default handler started (once since a custom handler
\* started or last used the transport).
C2_PreCallOrder ==
  IsEndpointCall("c1") =>
    LET E   == ConfiguredOrder(call["c1"].path, "beforeRequest")
        evs == OfOp("c1", "beforeRequest")
        Pos(id) == CHOOSE k \in 1..Len(E) : E[k] = id
    IN  /\ \A k \in 1..Len(evs) :
             /\ \E n \in 1..Len(E) : E[n] = evs[k].src
             /\ k = 1 => evs[k].src = E[1]
             /\ k > 1 =>
                  evs[k].src =
                    IF evs[k-1].out = "return" /\ Pos(evs[k-1].src) < Len(E)
                    THEN E[Pos(evs[k-1].src) + 1] ELSE E[1]
        /\ \A j \in 1..Len(log["c1"]) :
             log["c1"][j].op = "fetch" =>
               SrcsBetween("c1", "beforeRequest", LastStart("c1", j), j) =
                 IF DefaultExecuted("c1") THEN E \o E ELSE E

\* the transport was invoked in a default-executed call of the innermost
\* endpoint after the hooks of two plugins, the global hooks, the hooks of
\* both groups and the endpoint's ran twice in that order
C2_Witness ==
  /\ DefaultExecuted("c1")
  /\ Ran("c1", "fetch") = 1
  /\ LET evs == OfOp("c1", "beforeRequest")
     IN  /\ Len(evs) = 2 * (MaxPlugins + MaxDepth + 2)
         /\ evs[1].src = PluginName(1)
         /\ evs[MaxPlugins].src = PluginName(MaxPlugins)
         /\ evs[MaxPlugins + 1].src = "global"
         /\ evs[MaxPlugins + 2].src = GroupName(1)
         /\ evs[MaxPlugins + MaxDepth + 1].src = GroupName(MaxDepth)
         /\ evs[MaxPlugins + MaxDepth + 2].src = "endpoint"
         /\ evs[MaxPlugins + MaxDepth + 3].src = PluginName(1)

NoWrappers == \A i \in 1..Len(client.config.plugins) :
                 ~client.config.plugins[i].handlerWrapper

PreCallFailed(c) == \E k \in 1..Len(log[c]) :
                       log[c][k].op = "beforeRequest" /\ log[c][k].out = "throw"

\* C10: a call of an endpoint with no custom handler, in a client without
\* handler wrappers, never invokes the injected transport twice, and has
\* invoked it exactly once when it settles, unless a pre-call hook failed
\* before the transport was reached.
C10_TransportExactlyOnce ==
  (DefaultExecuted("c1") /\ NoWrappers) =>
    /\ Ran("c1", "fetch") <= 1
    /\ (Settled("c1") /\ ~PreCallFailed("c1")) => Ran("c1", "fetch") = 1

\* a default-executed call without wrappers has settled after both layers
\* applied the merged hooks around one transport invocation
C10_Witness ==
  /\ DefaultExecuted("c1") /\ NoWrappers /\ Settled("c1")
  /\ Ran("c1", "fetch") = 1
  /\ \E k \in 1..Len(log["c1"]) :
       log["c1"][k].op = "beforeRequest" /\ log["c1"][k].layer = 2
  /\ \E k \in 1..Len(log["c1"]) :
       log["c1"][k].op = "afterResponse" /\ log["c1"][k].layer = 1

\* the names of the plugins of the client that define a handler wrapper, in
\* registration order
WrapperPlugins ==
  SeqMap(LAMBDA p : p.name,
         SelectSeq(client.config.plugins, LAMBDA p : p.handlerWrapper))

\* what call c has logged of wrappers being entered, the base executor
\* starting and control coming back to a wrapper
WrapperTrace(c) ==
  SeqMap(LAMBDA e : <<e.op, e.src>>,
         SelectSeq(log[c], LAMBDA e :
           e.op \in {"wrapper", "defaultHandler", "handler", "wrapper.after"}))

\* the order for wrappers P1..Pn that each invoke their original once:
\* Pn..P1 entered, the base executor, control back in P1..Pn
PassThroughOrder(c) ==
  SeqMap(LAMBDA p : <<"wrapper", p>>, Reverse(WrapperPlugins))
  \o <<IF DefaultExecuted(c) THEN <<"defaultHandler", "defaultHandler">>
                             ELSE <<"handler", "handler">>>>
  \o SeqMap(LAMBDA p : <<"wrapper.after", p>>, WrapperPlugins)

IsPrefix(s, t) == Len(s) <= Len(t) /\ s = SubSeq(t, 1, Len(s))

\* C11: in an endpoint call whose handler wrappers each invoke the handler
\* they wrap once, the wrappers are entered from the last registered plugin
\* to the first, then the base executor runs, then control comes back to
\* the wrappers from the first registered plugin to the last; a settled
\* call has gone through the whole order.
C11_WrapperOrder ==
  (IsEndpointCall("c1") /\ WrappersPassThrough("c1")) =>
    /\ IsPrefix(WrapperTrace("c1"), PassThroughOrder("c1"))
    /\ Settled("c1") => WrapperTrace("c1") = PassThroughOrder("c1")

\* a call through the wrappers of MaxPlugins plugins has resolved, each
\* wrapper having invoked its original once
C11_Witness ==
  /\ IsEndpointCall("c1") /\ Settled("c1") /\ ret["c1"].status = "return"
  /\ WrappersPassThrough("c1")
  /\ Len(WrapperPlugins) = MaxPlugins
  /\ Len(WrapperTrace("c1")) = 2 * MaxPlugins + 1
  /\ WrapperTrace("c1")[1] = <<"wrapper", PluginName(MaxPlugins)>>
  /\ WrapperTrace("c1")[MaxPlugins] = <<"wrapper", PluginName(1)>>
  /\ WrapperTrace("c1")[MaxPlugins + 2] = <<"wrapper.after", PluginName(1)>>

\* the groups of a tree of definitions that define hooks: where each is (the
\* names that lead to it) and the id of its Hooks object
RECURSIVE GroupsOf(_, _)
GroupsOf(definitions, at) ==
  UNION {LET definition == definitions[i].def
             here == Append(at, definitions[i].name)
         IN  IF ~isGroupConfig(definition) THEN {}
             ELSE (IF definition.hooks # Undefined
                   THEN {[at |-> here, id |-> definition.hooks.id]} ELSE {})
                  \cup (IF "endpoints" \in DOMAIN definition
                        THEN GroupsOf(definition.endpoints, here) ELSE {})
                  \cup (IF "groups" \in DOMAIN definition
                        THEN GroupsOf(definition.groups, here) ELSE {}) :
         i \in 1..Len(definitions)}

\* the endpoint at path lies beneath the group g
Beneath(path, g) == Len(g.at) < Len(path) /\ IsPrefix(g.at, path)

InSeq(x, seq) == \E k \in 1..Len(seq) : seq[k] = x

\* C15: the hooks of a group are part of the merged hook set an endpoint
\* call uses if and only if the called endpoint lies beneath that group, at
\* any depth; a hook of a group the endpoint does not lie beneath is never
\* invoked in the call.
C15_GroupHooksOnlyBeneath ==
  IsEndpointCall("c1") =>
    \A g \in GroupsOf(client.endpoints, <<>>) :
      /\ \A kind \in Kinds :
           (Has(call["c1"].hooks, kind) /\ InSeq(g.id, call["c1"].hooks[kind]))
             <=> Beneath(call["c1"].path, g)
      /\ ~Beneath(call["c1"].path, g) =>
           \A k \in 1..Len(log["c1"]) : log["c1"][k].src # g.id

\* an endpoint of the group beside the nested groups was called and has
\* resolved after its group's hooks ran, while every nested group defines
\* hooks too
C15_Witness ==
  /\ IsEndpointCall("c1") /\ Settled("c1") /\ ret["c1"].status = "return"
  /\ call["c1"].path = <<"other", "call">>
  /\ Cardinality(GroupsOf(client.endpoints, <<>>)) = MaxDepth + 1
  /\ Times("c1", "beforeRequest", "other") > 0
  /\ Times("c1", "afterResponse", "other") > 0

\* the whole of s, n times over
RECURSIVE Repeat(_, _)
Repeat(s, n) == IF n = 0 THEN <<>> ELSE s \o Repeat(s, n - 1)

\* C16: in an endpoint call the post-call hooks run in the order endpoint,
\* groups from the innermost to the outermost, global, plugins from the
\* last registered to the first, the reverse of the pre-call order: a hook
\* that returned is followed by the next one of that order, and the pass
\* starts over after its last hook.  A default-executed call that resolved
\* went through the order twice, a resolved custom handler once for each
\* use of the transport it was given.
C16_PostCallOrder ==
  IsEndpointCall("c1") =>
    LET E   == Reverse(ConfiguredOrder(call["c1"].path, "afterResponse"))
        evs == OfOp("c1", "afterResponse")
        Pos(id) == CHOOSE k \in 1..Len(E) : E[k] = id
    IN  /\ E = Reverse(ConfiguredOrder(call["c1"].path, "beforeRequest"))
        /\ \A k \in 1..Len(evs) :
             /\ \E n \in 1..Len(E) : E[n] = evs[k].src
             /\ k = 1 => evs[k].src = E[1]
             /\ k > 1 =>
                  evs[k].src =
                    IF evs[k-1].out = "return" /\ Pos(evs[k-1].src) < Len(E)
                    THEN E[Pos(evs[k-1].src) + 1] ELSE E[1]
        /\ (Settled("c1") /\ ret["c1"].status = "return") =>
             SeqMap(LAMBDA e : e.src, evs) =
               Repeat(E, IF DefaultExecuted("c1") THEN 2
                         ELSE ret["c1"].value.fetches)

\* a default-executed call of the innermost endpoint has resolved after the
\* post-call hooks of the endpoint, both groups, the global configuration
\* and two plugins ran in that order, twice
C16_Witness ==
  /\ DefaultExecuted("c1") /\ Settled("c1") /\ ret["c1"].status = "return"
  /\ LET evs == OfOp("c1", "afterResponse")
     IN  /\ Len(evs) = 2 * (MaxPlugins + MaxDepth + 2)
         /\ evs[1].src = "endpoint"
         /\ evs[2].src = GroupName(MaxDepth)
         /\ evs[MaxDepth + 1].src = GroupName(1)
         /\ evs[MaxDepth + 2].src = "global"
         /\ evs[MaxDepth + 3].src = PluginName(MaxPlugins)
         /\ evs[MaxPlugins + MaxDepth + 2].src = PluginName(1)
         /\ evs[MaxPlugins + MaxDepth + 3].src = "endpoint"

\* the responses the outermost enhanced transport of call c returned
FinalResponses(c) ==
  SelectSeq(log[c], LAMBDA e : e.op = "enhancedFetch" /\ e.src = "settle"
                               /\ e.out = "return" /\ e.layer = 1)

\* C17: a default-executed call whose enhanced transport returned a response
\* that is not ok rejects with {status, statusText, error}: the status and
\* status text of that response, and its decoded body, or the empty object
\* when the body did not decode.
C17_RequestFailure ==
  (DefaultExecuted("c1") /\ Settled("c1") /\ Len(FinalResponses("c1")) = 1
     /\ ~FinalResponses("c1")[1].arg.ok) =>
    LET response == FinalResponses("c1")[1].arg
        json == OfOp("c1", "json")
    IN  /\ Len(json) = 1
        /\ ret["c1"] =
             Throw([status |-> response.status,
                    statusText |-> response.statusText,
                    error |-> IF json[1].out = "return" THEN Decoded(response)
                              ELSE EmptyObject])

\* a default-executed call has rejected with the status of a response that
\* was not ok and went through the post-call hooks, and with its decoded body
C17_Witness ==
  /\ DefaultExecuted("c1") /\ Settled("c1") /\ ret["c1"].status = "throw"
  /\ Len(FinalResponses("c1")) = 1
  /\ LET response == FinalResponses("c1")[1].arg
     IN  /\ response.status = 500
         /\ response.via # <<>>
         /\ ret["c1"].value = [status |-> 500,
                               statusText |-> "Internal Server Error",
                               error |-> Decoded(response)]

\* call c rejected with the {status, statusText, error} object of
\* defaultHandler
RejectedWithRequestFailure(c) ==
  /\ Settled(c) /\ ret[c].status = "throw"
  /\ DOMAIN ret[c].value = {"status", "statusText", "error"}

\* C23: when a call of an endpoint with no custom handler whose merged hook
\* set has an on-error hook rejects with a Request Failure for a response
\* that is not ok, the on-error hook has been invoked.
C23_OnErrorOnRequestFailure ==
  (DefaultExecuted("c1") /\ RejectedWithRequestFailure("c1")
     /\ Has(call["c1"].hooks, "onError")) =>
    Ran("c1", "onError") >= 1

\* the injected transport rejected during call c
TransportRejected(c) ==
  \E k \in 1..Len(log[c]) : log[c][k].op = "fetch" /\ log[c][k].out = "reject"

\* the on-error hooks of the merged hook set of call c
OnErrorHooksOf(c) ==
  IF Has(call[c].hooks, "onError")
  THEN {call[c].hooks.onError[i] : i \in 1..Len(call[c].hooks.onError)}
  ELSE {}

\* C24: when the injected transport has rejected during a call of an endpoint
\* with no custom handler, then once the call has settled it has rejected,
\* every on-error hook of the merged hook set has been invoked exactly twice
\* and no post-call hook has been invoked.
C24_OnErrorTwiceOnTransportReject ==
  (DefaultExecuted("c1") /\ Settled("c1") /\ TransportRejected("c1")) =>
    /\ ret["c1"].status = "throw"
    /\ \A id \in OnErrorHooksOf("c1") : Times("c1", "onError", id) = 2
    /\ Ran("c1", "afterResponse") = 0

\* what call c holds: its invocation, its frames, its result, its history
StateOf(c) == <<call[c], stack[c], ret[c], log[c]>>

\* the choices made for call c by what it called: how each hook, the
\* transport and each decode step settled, and the statuses of the responses
Choices(c) == SeqMap(LAMBDA e : e.out, log[c])
Statuses(c) ==
  {log[c][k].arg.status : k \in {j \in 1..Len(log[c]) :
      log[c][j].op = "enhancedFetch" /\ log[c][j].out = "return"}}
  \cup {log[c][k].arg.response.status : k \in {j \in 1..Len(log[c]) :
           log[c][j].op = "afterResponse"}}

\* what a call of the endpoint of call c does when nothing fails: both
\* layers run the pre-call chain, the transport gets the request they built,
\* both layers run the post-call chain, the decoded response is returned
ChainOf(c, kind) == IF Has(call[c].hooks, kind) THEN call[c].hooks[kind] ELSE <<>>
AloneUnfailed(c) ==
  LET pre == ChainOf(c, "beforeRequest") \o ChainOf(c, "beforeRequest")
      post == ChainOf(c, "afterResponse") \o ChainOf(c, "afterResponse")
  IN  /\ SeqMap(LAMBDA e : e.src, OfOp(c, "beforeRequest")) = pre
      /\ SeqMap(LAMBDA e : e.src, OfOp(c, "afterResponse")) = post
      /\ SeqMap(LAMBDA e : e.arg, OfOp(c, "fetch"))
           = <<Req(Url0 \o pre, Init0 \o pre)>>
      /\ Ran(c, "onError") = 0
      /\ ret[c] = Return(Decoded(Response(200, post)))

\* C25: two calls in flight on one client, interleaved at their awaits, are
\* independent.  Every step is a step of one call: it leaves what the other
\* call holds as it was, and it leaves the client (the definitions, the
\* configuration, the merged hook set of every endpoint) as it was.  A call
\* in which nothing failed has invoked the hooks and the transport, and
\* resolved, as the same call does alone; and two calls of the same endpoint
\* for which the hooks, the transport and the decoding settled in the same
\* way have the same history and the same outcome, however they interleaved.
C25_CallsIndependent ==
  /\ [][/\ client' = client
        /\ \E c \in Calls :
             \A d \in Calls \ {c} : StateOf(d)' = StateOf(d)]_vars
  /\ [](\A c \in Calls :
          (call[c] # NoCall /\ Settled(c) /\ Faults(c) = 0) => AloneUnfailed(c))
  /\ []((/\ call["c1"] # NoCall /\ call["c2"] # NoCall
         /\ Settled("c1") /\ Settled("c2")
         /\ call["c1"].path = call["c2"].path
         /\ Choices("c1") = Choices("c2")
         /\ Statuses("c1") = Statuses("c2"))
        => (log["c1"] = log["c2"] /\ ret["c1"] = ret["c2"]))

\* both calls are in the pre-call chain of the same endpoint at once, at
\* different hooks of it
C25_Witness ==
  /\ call["c1"] # NoCall /\ call["c2"] # NoCall
  /\ call["c1"].path = call["c2"].path
  /\ Running("c1", "merged.beforeRequest")
  /\ Running("c2", "merged.beforeRequest")
  /\ Top("c1").hooks = Top("c2").hooks
  /\ Top("c1").i # Top("c2").i
  /\ Top("c1").result # Top("c2").result

\* no handler wrapper of call c returned a result of its own instead of
\* its original's
NoWrapperResult(c) ==
  \A k \in 1..Len(log[c]) : ~(log[c][k].op = "wrapper" /\ log[c][k].out = "skip")

\* the ways a call of an endpoint with no custom handler settles: with the
\* decoded body of the last response the enhanced transport returned, which
\* was ok; or rejected with the transport's error, with a Request Failure for
\* that last response, which was not ok, with the decode error, or with the
\* error of a hook
SettledAsDocumented(c) ==
  LET final == FinalResponses(c)
      last == final[Len(final)].arg
  IN  \/ /\ ret[c].status = "return"
         /\ final # <<>> /\ last.ok
         /\ ret[c].value = Decoded(last)
      \/ /\ ret[c].status = "throw"
         /\ \/ ret[c].value = FetchError
            \/ /\ RejectedWithRequestFailure(c)
               /\ final # <<>> /\ ~last.ok
               /\ ret[c].value.status = last.status
            \/ /\ ret[c].value = Err("json", "response")
               /\ final # <<>> /\ last.ok
            \/ \E kind \in Kinds :
                 /\ Has(call[c].hooks, kind)
                 /\ \E i \in 1..Len(call[c].hooks[kind]) :
                      ret[c].value = Err(kind, call[c].hooks[kind][i])

\* C26: when whatever a call awaits settles, a call that was made eventually
\* settles; and a call of an endpoint with no custom handler, whose handler
\* wrappers hand on what their original settled with, settles in one of the
\* documented ways: it never resolves when the last response was not ok.
C26_CallSettles ==
  /\ (call["c1"] # NoCall) ~> Settled("c1")
  /\ []((DefaultExecuted("c1") /\ Settled("c1") /\ NoWrapperResult("c1"))
          => SettledAsDocumented("c1"))

\* a call settled after a wrapper invoked the default executor again: the
\* first response was not ok, the last one was, and the call resolved
C26_Witness ==
  /\ DefaultExecuted("c1") /\ Settled("c1") /\ NoWrapperResult("c1")
  /\ Retries("c1") >= 1
  /\ Len(FinalResponses("c1")) = 2
  /\ ~FinalResponses("c1")[1].arg.ok
  /\ FinalResponses("c1")[2].arg.ok
  /\ ret["c1"].status = "return"

\* the pre-call hook invocations of call c that threw
PreCallThrows(c) ==
  SelectSeq(log[c], LAMBDA e : e.op = "beforeRequest" /\ e.out = "throw")

\* C27: when a pre-call hook has thrown during a call of an endpoint with no
\* custom handler, then once the call has settled the injected transport has
\* not been invoked, no post-call hook has run, and the call has rejected
\* with exactly the error that hook threw.
C27_PreCallErrorAsIs ==
  (DefaultExecuted("c1") /\ Settled("c1") /\ PreCallThrows("c1") # <<>>) =>
    /\ Ran("c1", "fetch") = 0
    /\ Ran("c1", "afterResponse") = 0
    /\ ret["c1"] = Throw(Err("beforeRequest", PreCallThrows("c1")[1].src))

\* C29: a call of an endpoint with no custom handler whose enhanced
\* transport returned a response that is ok decodes its body once and
\* resolves with the decoded body; when the decoding fails the call rejects
\* with the decode error itself, not with a Request Failure, and no on-error
\* hook has been invoked.
C29_OkDecodedOrRawError ==
  (DefaultExecuted("c1") /\ Settled("c1") /\ Len(FinalResponses("c1")) = 1
     /\ FinalResponses("c1")[1].arg.ok) =>
    LET response == FinalResponses("c1")[1].arg
        json == OfOp("c1", "json")
    IN  /\ Len(json) = 1
        /\ json[1].arg = response
        /\ log["c1"][Len(log["c1"])] = json[1]
        /\ Ran("c1", "onError") = 0
        /\ IF json[1].out = "return"
           THEN ret["c1"] = Return([json |-> response])
           ELSE /\ ret["c1"] = Throw(Err("json", "response"))
                /\ ~RejectedWithRequestFailure("c1")

\* the body of an ok response that went through the post-call hooks did not
\* decode, in a call whose merged hook set has an on-error hook
C29_Witness ==
  /\ DefaultExecuted("c1") /\ Settled("c1")
  /\ Has(call["c1"].hooks, "onError")
  /\ Len(FinalResponses("c1")) = 1
  /\ FinalResponses("c1")[1].arg.ok
  /\ FinalResponses("c1")[1].arg.via # <<>>
  /\ OfOp("c1", "json")[1].out = "throw"
  /\ ret["c1"] = Throw(Err("json", "response"))

\* the invocations of the default base executor in call c
Executions(c) == Ran(c, "defaultHandler")

\* no hook of call c threw and its transport did not reject
NothingThrew(c) ==
  \A k \in 1..Len(log[c]) :
     /\ log[c][k].op \in Kinds => log[c][k].out = "return"
     /\ log[c][k].op = "fetch" => log[c][k].out # "reject"

\* C30: in a call of an endpoint with no custom handler the injected
\* transport is never invoked more often than the default base executor;
\* once the call has settled, the innermost handler wrapper having invoked
\* its original k times, the default base executor has run k times and,
\* unless a pre-call hook threw before the transport was reached, the
\* transport has been invoked k times; when no hook threw and the transport
\* did not reject, every pre-call and post-call hook has run 2k times.
C30_TransportOncePerExecution ==
  DefaultExecuted("c1") =>
    /\ Ran("c1", "fetch") <= Executions("c1")
    /\ Settled("c1") =>
         /\ (WrapperPlugins # <<>> /\ NoWrapperResult("c1")) =>
              Executions("c1")
                = Len(SelectSeq(log["c1"], LAMBDA e :
                        e.op = "wrapper" /\ e.src = WrapperPlugins[1]
                        /\ e.out \in {"invoke", "retry"}))
         /\ PreCallThrows("c1") = <<>> =>
              Ran("c1", "fetch") = Executions("c1")
         /\ NothingThrew("c1") =>
              \A kind \in {"beforeRequest", "afterResponse"} :
                Has(call["c1"].hooks, kind) =>
                  \A i \in 1..Len(call["c1"].hooks[kind]) :
                    Times("c1", kind, call["c1"].hooks[kind][i])
                      = 2 * Executions("c1")

\* a wrapper invoked the default base executor again after each response
\* that was not ok, MaxRetries times, and the call resolved with the last
\* response: MaxRetries + 1 transport invocations
C30_Witness ==
  /\ DefaultExecuted("c1") /\ Settled("c1") /\ ret["c1"].status = "return"
  /\ Has(call["c1"].hooks, "beforeRequest")
  /\ Retries("c1") = MaxRetries
  /\ Executions("c1") = MaxRetries + 1
  /\ Ran("c1", "fetch") = MaxRetries + 1
  /\ \A k \in 1..MaxRetries : OfOp("c1", "fetch")[k].out = "notOk"
  /\ OfOp("c1", "fetch")[MaxRetries + 1].out = "ok"
  /\ ret["c1"].value = Decoded(FinalResponses("c1")[MaxRetries + 1].arg)

\* the positions in the history of call c of the events of one operation
At(c, op) == {k \in 1..Len(log[c]) : log[c][k].op = op}

\* every position of P is before every position of Q
AllBefore(P, Q) == \A i \in P, j \in Q : i < j

\* C32: in a call of an endpoint with no custom handler, every pre-call hook
\* invocation of both layers comes before the invocation of the transport and
\* every post-call hook invocation after it; the post-call hooks of the inner
\* (context) layer have all run before the first of the outer (default
\* executor) layer, and the body is decoded, in either branch of the status
\* check, only after the last post-call hook.
C32_PipelineOrder ==
  \A c \in Calls :
    (call[c] # NoCall /\ DefaultExecuted(c)) =>
      /\ Ran(c, "fetch") <= 1
      /\ AllBefore(At(c, "beforeRequest"), At(c, "fetch"))
      /\ AllBefore(At(c, "fetch"), At(c, "afterResponse"))
      /\ AllBefore({k \in At(c, "afterResponse") : log[c][k].layer = 2},
                   {k \in At(c, "afterResponse") : log[c][k].layer = 1})
      /\ AllBefore(At(c, "afterResponse"), At(c, "json"))
      /\ AllBefore(At(c, "fetch"), At(c, "json"))
      /\ \A k \in At(c, "beforeRequest") \cup At(c, "afterResponse") :
           log[c][k].layer \in {1, 2}
      /\ (Settled(c) /\ ret[c].status = "return") =>
           \A layer \in {1, 2}, kind \in {"beforeRequest", "afterResponse"} :
             SeqMap(LAMBDA e : e.src,
                    SelectSeq(log[c], LAMBDA e : e.op = kind /\ e.layer = layer))
               = ChainOf(c, kind)

\* a call went through two pre-call hooks in each layer, the transport, two
\* post-call hooks in each layer and the decoding, and resolved
C32_Witness ==
  /\ DefaultExecuted("c2") /\ Settled("c2") /\ ret["c2"].status = "return"
  /\ Len(ChainOf("c2", "beforeRequest")) = 2
  /\ Len(ChainOf("c2", "afterResponse")) = 2
  /\ Ran("c2", "beforeRequest") = 4 /\ Ran("c2", "afterResponse") = 4
  /\ Ran("c2", "fetch") = 1 /\ Ran("c2", "json") = 1
  /\ stack["c1"] # <<>>

\* the merged pre-call chain applied to (url, init): each hook is given what
\* the one before it returned
RECURSIVE PreChain(_, _)
PreChain(chain, req) ==
  IF chain = <<>> THEN req
  ELSE PreChain(Tail(chain), ApplyBeforeRequest(Head(chain), req))

\* the merged post-call chain applied to a response
RECURSIVE PostChain(_, _)
PostChain(chain, response) ==
  IF chain = <<>> THEN response
  ELSE PostChain(Tail(chain), ApplyAfterResponse(Head(chain), response))

\* C33: in a call of an endpoint with no custom handler the transport is
\* given the merged pre-call chain applied twice in succession to the url
\* and options the default executor built, and the response the default
\* executor checks and decodes is the merged post-call chain applied twice to
\* the response of the transport: with hooks that are not idempotent neither
\* is what one application gives.
C33_ChainsAppliedTwice ==
  \A c \in Calls :
    (call[c] # NoCall /\ DefaultExecuted(c)) =>
      LET pre == ChainOf(c, "beforeRequest")
          post == ChainOf(c, "afterResponse")
          sent == OfOp(c, "fetch")
          json == OfOp(c, "json")
      IN  /\ \A k \in 1..Len(sent) :
               /\ sent[k].arg = PreChain(pre, PreChain(pre, DefaultRequest))
               /\ pre # <<>> => sent[k].arg # PreChain(pre, DefaultRequest)
          /\ \A k \in 1..Len(json) :
               LET transported == Response(json[k].arg.status, <<>>)
               IN  /\ Len(sent) = 1 /\ sent[1].out # "reject"
                   /\ transported.ok = (sent[1].out = "ok")
                   /\ post # <<>> =>
                        /\ OfOp(c, "afterResponse")[1].arg.response = transported
                        /\ json[k].arg # PostChain(post, transported)
                   /\ json[k].arg = PostChain(post, PostChain(post, transported))

\* a call was answered with a response that is not ok and checked it after
\* two pre-call and two post-call hooks were applied twice each
C33_Witness ==
  /\ DefaultExecuted("c1") /\ Settled("c1")
  /\ ChainOf("c1", "beforeRequest") = <<"global", "other">>
  /\ ChainOf("c1", "afterResponse") = <<"other", "global">>
  /\ Ran("c1", "fetch") = 1 /\ Ran("c1", "json") = 1
  /\ OfOp("c1", "fetch")[1].arg.url
       = Url0 \o <<"global", "other", "global", "other">>
  /\ OfOp("c1", "json")[1].arg.via = <<"other", "global", "other", "global">>
  /\ ~OfOp("c1", "json")[1].arg.ok

\* the calls of the enhanced transport that have settled in call c
EnhancedCalls(c) ==
  SelectSeq(log[c], LAMBDA e : e.op = "enhancedFetch" /\ e.src = "settle")

\* C36: for an endpoint with a custom handler the pipeline invokes neither
\* the transport nor a hook, and the default executor never runs: the
\* transport and the hooks are invoked only by the enhanced transport the
\* handler was given, in a single layer and after the handler was entered.
\* A handler that resolved after calling the enhanced transport n times
\* (0 <= n) leaves the transport and every pre-call and post-call hook of
\* the endpoint's merged hook set invoked n times each and no on-error hook
\* invoked; when a call of the enhanced transport failed, the last of the n
\* calls is the one cut short, so each count is n or n - 1.
C36_CustomHandlerOnly ==
  (CustomHandled("c1") /\ Settled("c1")) =>
    LET pre  == ConfiguredOrder(call["c1"].path, "beforeRequest")
        post == ConfiguredOrder(call["c1"].path, "afterResponse")
        err  == ConfiguredOrder(call["c1"].path, "onError")
        n    == Len(EnhancedCalls("c1"))
    IN  /\ Ran("c1", "defaultHandler") = 0 /\ Ran("c1", "json") = 0
        /\ Ran("c1", "handler") = 1 /\ log["c1"][1].op = "handler"
        /\ \A k \in 2..Len(log["c1"]) :
             /\ log["c1"][k].op \in Kinds \cup {"fetch", "enhancedFetch"}
             /\ log["c1"][k].layer = 1
        /\ ret["c1"].status = "return" =>
             /\ ret["c1"].value = HandlerResult(n)
             /\ Ran("c1", "fetch") = n
             /\ \A k \in 1..Len(pre) : Times("c1", "beforeRequest", pre[k]) = n
             /\ \A k \in 1..Len(post) : Times("c1", "afterResponse", post[k]) = n
             /\ Ran("c1", "onError") = 0
             /\ n = 0 => Len(log["c1"]) = 1
        /\ ret["c1"].status = "throw" =>
             /\ n >= 1
             /\ Ran("c1", "fetch") \in {n - 1, n}
             /\ \A k \in 1..Len(pre) :
                  Times("c1", "beforeRequest", pre[k]) \in {n - 1, n}
             /\ \A k \in 1..Len(post) :
                  Times("c1", "afterResponse", post[k]) \in {n - 1, n}
             /\ \A k \in 1..Len(err) : Times("c1", "onError", err[k]) <= 1

\* a custom handler called the enhanced transport it was given twice and
\* resolved: the transport and each of the hooks of every level of the client
\* were invoked twice
C36_Witness ==
  /\ CustomHandled("c1") /\ Settled("c1")
  /\ ret["c1"] = Return(HandlerResult(2))
  /\ Len(ConfiguredOrder(call["c1"].path, "beforeRequest")) = MaxPlugins + MaxDepth + 2
  /\ Len(ConfiguredOrder(call["c1"].path, "afterResponse")) = MaxPlugins + MaxDepth + 2
  /\ Ran("c1", "fetch") = 2
  /\ Ran("c1", "beforeRequest") = 2 * (MaxPlugins + MaxDepth + 2)
  /\ Ran("c1", "afterResponse") = 2 * (MaxPlugins + MaxDepth + 2)

\* the plugins of the client that have a handler wrapper, in registration
\* order: the last one is the outermost wrapper of a call
WrappingPlugins ==
  SeqMap(LAMBDA p : p.name,
         SelectSeq(client.config.plugins, LAMBDA p : p.handlerWrapper))

\* the position of plugin name in WrappingPlugins
WrapperIndex(name) ==
  CHOOSE i \in 1..Len(WrappingPlugins) : WrappingPlugins[i] = name

\* the events of call c at which a wrapper returned a result of its own
\* without invoking its original
Skips(c) ==
  {k \in 1..Len(log[c]) : log[c][k].op = "wrapper" /\ log[c][k].out = "skip"}

\* C37: when a handler wrapper returns a result without invoking the
\* executor it wraps, nothing inside it runs: the next thing that happens in
\* the call is the wrapper around it receiving that result (or the call
\* resolving with it, when the wrapper is the outermost one), not the
\* transport, a hook, a more-inner wrapper or the base executor. A call in
\* which a wrapper did so and no wrapper invoked its original again has
\* resolved with that wrapper's result with no transport, hook or base
\* executor invoked and no wrapper inside that one entered.
C37_SkipShortCircuits ==
  IsEndpointCall("c1") =>
    /\ \A k \in Skips("c1") :
         LET plugin == log["c1"][k].src
             i == WrapperIndex(plugin)
         IN  /\ k = Len(log["c1"]) =>
                  /\ ret["c1"] = Return(WrapperResult(plugin))
                  /\ Settled("c1") <=> i = Len(WrappingPlugins)
             /\ k < Len(log["c1"]) =>
                  /\ i < Len(WrappingPlugins)
                  /\ log["c1"][k + 1].src = WrappingPlugins[i + 1]
                  /\ \/ /\ log["c1"][k + 1].op = "wrapper.after"
                        /\ log["c1"][k + 1].out = "return"
                     \/ /\ log["c1"][k + 1].op = "wrapper"
                        /\ log["c1"][k + 1].out = "retry"
    /\ (Settled("c1") /\ Retries("c1") = 0 /\ Skips("c1") # {}) =>
         \E k \in Skips("c1") :
           LET plugin == log["c1"][k].src
           IN  /\ Skips("c1") = {k}
               /\ ret["c1"] = Return(WrapperResult(plugin))
               /\ Ran("c1", "fetch") = 0
               /\ Ran("c1", "defaultHandler") = 0 /\ Ran("c1", "handler") = 0
               /\ \A j \in 1..Len(log["c1"]) :
                    /\ log["c1"][j].op \notin Kinds
                    /\ log["c1"][j].op \in {"wrapper", "wrapper.after"} =>
                         WrapperIndex(log["c1"][j].src) >= WrapperIndex(plugin)

\* in a client with global hooks of every kind and two wrapping plugins the
\* outer wrapper invoked its original, the inner one returned a result of
\* its own, and the call resolved with it without the transport or a hook
C37_Witness ==
  /\ IsEndpointCall("c1") /\ Settled("c1") /\ Retries("c1") = 0
  /\ Len(WrappingPlugins) = 2
  /\ client.config.hooks # Undefined /\ client.config.hooks.kinds = Kinds
  /\ \E k \in Skips("c1") : log["c1"][k].src = WrappingPlugins[1]
  /\ ret["c1"] = Return(WrapperResult(WrappingPlugins[1]))
  /\ Ran("c1", "fetch") = 0 /\ Ran("c1", "beforeRequest") = 0

\* createApiClient invoked nothing but mergeHooks: no hook, no handler
\* wrapper, no path function and no transport, and until it has returned
\* nothing at all has been invoked
BuildInvokesNothing ==
  /\ \A k \in 1..Len(log["build"]) : log["build"][k].op = "mergeHooks"
  /\ stack["build"] = <<>>
  /\ client = NoClient =>
       /\ log["build"] = <<>>
       /\ \A c \in Calls : call[c] = NoCall /\ log[c] = <<>>

\* the merged hook set of every endpoint was computed once, by
\* createApiClient, and the calls use it without computing it again: only
\* its hooks run in a call
HooksMergedOnce ==
  client # NoClient =>
    LET merged == SeqMap(LAMBDA e : e.arg, OfOp("build", "mergeHooks"))
    IN  /\ Len(merged) = Cardinality(Paths(client.api))
        /\ {merged[k] : k \in 1..Len(merged)} = Paths(client.api)
        /\ ret["build"] = Return(client.api)
        /\ \A c \in Calls :
             /\ Ran(c, "mergeHooks") = 0
             /\ IsEndpointCall(c) =>
                  LET f == Lookup(client.api, call[c].path)
                  IN  /\ call[c].hooks = f.mergedHooks
                      /\ \A k \in 1..Len(log[c]) :
                           log[c][k].op \in Kinds =>
                             \E i \in 1..Len(f.mergedHooks[log[c][k].op]) :
                                f.mergedHooks[log[c][k].op][i] = log[c][k].src

\* call c invoked the path function of its endpoint, if it has one, once
\* and before anything else
PathResolvedFirst(c) ==
  IF call[c].endpoint.path = PathFunction
  THEN Ran(c, "path") = 1 /\ log[c][1].op = "path"
  ELSE Ran(c, "path") = 0

PathThrew(c) ==
  \E k \in 1..Len(log[c]) : log[c][k].op = "path" /\ log[c][k].out = "throw"

\* call c invoked the handlerWrapper of each plugin that has one, once, in
\* registration order, with the descriptor of its endpoint
ChainBuiltBy(c) ==
  LET wrapping == OfOp(c, "handlerWrapper")
  IN  /\ Len(wrapping) = Len(WrappingPlugins)
      /\ \A k \in 1..Len(wrapping) :
           /\ wrapping[k].src = WrappingPlugins[k]
           /\ wrapping[k].arg = Lookup(client.api, call[c].path).endpoint
           /\ wrapping[k].arg = call["build"].endpoints[1].def

C34_DecisionOnHookedResponse ==
  (/\ DefaultExecuted("c1") /\ Settled("c1") /\ Ran("c1", "fetch") = 1
   /\ OfOp("c1", "fetch")[1].out # "reject"
   /\ \A k \in At("c1", "afterResponse") : log["c1"][k].out # "throw") =>
    LET post  == ChainOf("c1", "afterResponse")
        final == FinalResponses("c1")
        json  == OfOp("c1", "json")
    IN  /\ Ran("c1", "afterResponse") = 2 * Len(post)
        /\ Len(final) = 1 /\ Len(json) = 1
        /\ json[1].arg = final[1].arg
        /\ RejectedWithRequestFailure("c1") <=> ~final[1].arg.ok
        /\ ~final[1].arg.ok => ret["c1"].value.status = final[1].arg.status
        /\ (final[1].arg.ok /\ json[1].out = "return") =>
             ret["c1"] = Return(Decoded(final[1].arg))

\* the transport answered with a response that is not ok, a post-call hook
\* returned an ok response for it, and the call resolved with the decoded
\* body of the response the hooks returned
C34_Witness ==
  /\ DefaultExecuted("c1") /\ Settled("c1") /\ Ran("c1", "fetch") = 1
  /\ OfOp("c1", "fetch")[1].out = "notOk"
  /\ \E k \in At("c1", "afterResponse") : log["c1"][k].out = "recover"
  /\ Len(FinalResponses("c1")) = 1
  /\ ret["c1"] = Return(Decoded(FinalResponses("c1")[1].arg))

----------------------------------------------------------------------------
(* Properties of building a client                                          *)

BuildDone(c) ==
  call[c] # NoCall /\ call[c].fn = "createApiClient" /\ ret[c] # NoRet

\* the positions of the plugins whose name an earlier plugin already has
DuplicateAt(plugins) ==
  {j \in 1..Len(plugins) : \E i \in 1..(j - 1) : plugins[i].name = plugins[j].name}

\* the error the construction is claimed to fail with
DuplicatePluginName(name) == Err("Duplicate plugin name", name)

\* C12: building a client whose plugin list holds two plugins of the same
\* name fails: createApiClient throws an error that names the first
\* duplicated name, and no client is returned.
C12_DuplicateNameRejected ==
  (BuildDone("c1") /\ DuplicateAt(call["c1"].config.plugins) # {}) =>
    LET plugins == call["c1"].config.plugins
        first == CHOOSE j \in DuplicateAt(plugins) :
                   \A k \in DuplicateAt(plugins) : j <= k
    IN  ret["c1"] = Throw(DuplicatePluginName(plugins[first].name))

\* C13: the client built from plugins of distinct names has, for every
\* plugin that defines a methods map, exactly that map under
\* client.plugins[<the plugin's name>].
C13_MethodsUnderPluginName ==
  (BuildDone("c1") /\ DuplicateAt(call["c1"].config.plugins) = {}) =>
    LET plugins == call["c1"].config.plugins
    IN  \A i \in 1..Len(plugins) :
          plugins[i].methods # Undefined =>
            /\ ret["c1"].status = "return"
            /\ "plugins" \in DOMAIN ret["c1"].value
            /\ plugins[i].name \in DOMAIN ret["c1"].value.plugins
            /\ ret["c1"].value.plugins[plugins[i].name] = plugins[i].methods

NoMethods(plugins) ==
  \A i \in 1..Len(plugins) : plugins[i].methods = Undefined

\* C14: the client built from plugins none of which defines a methods map
\* (or from no plugins), and from definitions none of which is named
\* "plugins", has no "plugins" property.
C14_NoPluginsProperty ==
  (BuildDone("c1") /\ NoMethods(call["c1"].config.plugins)) =>
    /\ ret["c1"].status = "return"
    /\ "plugins" \notin DOMAIN ret["c1"].value

\* a client was built from MaxPlugins plugins that define hooks and no
\* methods
C14_Witness ==
  /\ BuildDone("c1") /\ NoMethods(call["c1"].config.plugins)
  /\ Len(call["c1"].config.plugins) = MaxPlugins
  /\ \A i \in 1..MaxPlugins : call["c1"].config.plugins[i].hooks # Undefined
  /\ ret["c1"].status = "return"
  /\ <<"call">> \in Paths(ret["c1"].value)

----------------------------------------------------------------------------
(* Properties of the request the default executor builds                    *)

RequestBuilt(c) ==
  call[c] # NoCall /\ call[c].fn = "defaultHandler" /\ Len(log[c]) = 1

\* the JSON text of each input, written out
EncodingOf(input) ==
  CASE input = JsNull           -> "null"
    [] input = JsBoolean(FALSE) -> "false"
    [] input = JsNumber(0)      -> "0"
    [] input = JsNumber(7)      -> "7"
    [] input = JsString("")     -> "\"\""
    [] input = JsString("Bob")  -> "\"Bob\""
    [] input = JsObject("Bob")  -> "{\"name\":\"Bob\"}"

\* C18: the options the default executor builds have no body when the
\* method is GET or DELETE, whatever the input, or when the input is
\* undefined; for POST, PUT and PATCH with any other input, null, false, 0
\* and the empty string included, the body is the JSON text of that input.
C18_BodyOnlyForWritingMethods ==
  RequestBuilt("c1") =>
    LET init == log["c1"][1].arg.init
        method == call["c1"].method
        input == call["c1"].input
    IN  IF method \in {"GET", "DELETE"} \/ input = JsUndefined
        THEN "body" \notin DOMAIN init
        ELSE /\ method \in {"POST", "PUT", "PATCH"}
             /\ "body" \in DOMAIN init
             /\ init.body = EncodingOf(input)

\* the options of a PATCH with the input 0 were built, and carry its JSON
\* text
C18_Witness ==
  /\ RequestBuilt("c1")
  /\ call["c1"].method = "PATCH"
  /\ call["c1"].input = JsNumber(0)
  /\ log["c1"][1].arg.init.body = "0"

\* C19: buildUrl(path, base) is base without its last character if that is
\* a slash (one slash at most is removed), followed by a slash if path does
\* not start with one, followed by path.
C19_BuildUrl ==
  RequestBuilt("c1") =>
    LET url   == log["c1"][1].arg.url
        base  == call["c1"].config.baseUrl
        path  == call["c1"].path
        strip == IF Len(base) > 0 /\ base[Len(base)] = "/" THEN 1 ELSE 0
        add   == IF Len(path) > 0 /\ path[1] = "/" THEN 0 ELSE 1
        kept  == Len(base) - strip
    IN  /\ Len(url) = kept + add + Len(path)
        /\ \A i \in 1..kept : url[i] = base[i]
        /\ add = 1 => url[kept + 1] = "/"
        /\ \A i \in 1..Len(path) : url[kept + add + i] = path[i]

\* the url of base "a//" and path "a" was built: one of the two trailing
\* slashes is gone and one slash was put before the path
C19_Witness ==
  /\ RequestBuilt("c1")
  /\ call["c1"].config.baseUrl = <<"a", "/", "/">>
  /\ call["c1"].path = <<"a">>
  /\ log["c1"][1].arg.url = <<"a", "/", "/", "a">>

\* the headers config.defaultHeaders configures, as <<name, value>> pairs
Configured(defaultHeaders) ==
  CASE defaultHeaders.t = "record" ->
         {<<h, defaultHeaders.props[h].str>> : h \in DOMAIN defaultHeaders.props}
    [] defaultHeaders.t = "Headers" ->
         {defaultHeaders.entries[i] : i \in 1..Len(defaultHeaders.entries)}
    [] defaultHeaders.t = "array" ->
         {defaultHeaders.items[i] : i \in 1..Len(defaultHeaders.items)}
    [] OTHER -> {}

\* headers has a header of this name with this value
Carries(headers, name, value) ==
  name \in DOMAIN headers /\ headers[name] = JsString(value)

----------------------------------------------------------------------------
(* Properties of the dispatch between endpoints and groups                  *)

\* the names of the entries under a key of a definition node
NamesUnder(node, key) ==
  IF key \in DOMAIN node
  THEN {node[key][i].name : i \in 1..Len(node[key])}
  ELSE {}

\* C31: a definition node with an endpoints key or a groups key becomes an
\* object of the client that holds what is under those keys, whatever else
\* the node has; every other node, one with only hooks included, becomes a
\* callable of the client made from the node itself.
C31_GroupIffEndpointsOrGroups ==
  BuildDone("c1") =>
    LET node == call["c1"].endpoints[1].def
        made == ret["c1"].value["node"]
    IN  IF "endpoints" \in DOMAIN node \/ "groups" \in DOMAIN node
        THEN /\ ~IsCallable(made)
             /\ DOMAIN made = NamesUnder(node, "endpoints")
                               \cup NamesUnder(node, "groups")
        ELSE /\ IsCallable(made)
             /\ made.endpoint = node

\* a node with only hooks became a callable
C31_Witness ==
  /\ BuildDone("c1")
  /\ DOMAIN call["c1"].endpoints[1].def = {"hooks"}
  /\ call["c1"].endpoints[1].def.hooks # Undefined
  /\ IsCallable(ret["c1"].value["node"])
  /\ Has(ret["c1"].value["node"].mergedHooks, "onError")

====
